---------------------------- MODULE Spec2Model ----------------------------
(***************************************************************************)
(* A model of dccli, a Go wrapper around Docker Compose: the Compose       *)
(* instance (Start, GetContainer, Cleanup, Connect), the bounded retry     *)
(* loop connect and the retry policies.                                    *)
(*                                                                         *)
(* Strings the code looks into (project names, service keys, container     *)
(* names) are sequences of one-character strings.  An error is a record    *)
(* with its message, a sequence of text tokens; fmt.Errorf("...: %v", e)   *)
(* puts a token in front of e's tokens.                                    *)
(***************************************************************************)
EXTENDS Integers, Sequences, FiniteSets, TLC

(***************************************************************************)
(* Bounds of the model.                                                    *)
(***************************************************************************)
\* the largest OptionStartRetries value tried
MaxTries == 3
\* the largest NumRetries of a retry policy
MaxRetries == 2
\* AttemptAgain is called on a policy whose counter is below MaxCalls, and a
\* Connect is begun with such a policy
MaxCalls == 4
\* rand.Float64() draws one of 0/JitterSteps, ..., (JitterSteps-1)/JitterSteps
JitterSteps == 3
\* the longest DOCKER_HOST value made of the characters of HostChars
MaxHostLen == 5

(***************************************************************************)
(* Program constants.                                                      *)
(***************************************************************************)
\* connectTries: 3 in Start's default configuration
DefaultConnectTries == 3
\* time.Second*2, the base delay Start hands to connect (seconds)
StartRetryDelay == 2
\* connect(3, ...) in dockerPrune
PruneTries == 3
\* time.Second*2 in dockerPrune (seconds)
PruneRetryDelay == 2
\* getExponentialTime: 100 * time.Millisecond (milliseconds)
DefaultMin == 100
\* getExponentialTime: 10 * time.Second (milliseconds)
DefaultMax == 10000

(***************************************************************************)
(* Strings.                                                                *)
(***************************************************************************)
UpperCase == <<"A","B","C","D","E","F","G","H","I","J","K","L","M",
               "N","O","P","Q","R","S","T","U","V","W","X","Y","Z">>
LowerCase == <<"a","b","c","d","e","f","g","h","i","j","k","l","m",
               "n","o","p","q","r","s","t","u","v","w","x","y","z">>

\* strings.ToLower on one character
ToLowerChar(ch) ==
    IF \E i \in 1..Len(UpperCase) : UpperCase[i] = ch
    THEN LowerCase[CHOOSE i \in 1..Len(UpperCase) : UpperCase[i] = ch]
    ELSE ch

\* strings.ToLower
ToLower(s) == [i \in 1..Len(s) |-> ToLowerChar(s[i])]

\* strings.Replace(s, old, "", -1) for a one-character old
RECURSIVE RemoveChar(_, _)
RemoveChar(s, ch) ==
    IF s = <<>> THEN <<>>
    ELSE IF Head(s) = ch THEN RemoveChar(Tail(s), ch)
    ELSE <<Head(s)>> \o RemoveChar(Tail(s), ch)

\* strings.Contains
Contains(s, sub) ==
    \E i \in 0..(Len(s) - Len(sub)) : SubSeq(s, i + 1, i + Len(sub)) = sub

(***************************************************************************)
(* Errors.                                                                 *)
(***************************************************************************)
Tok(t, n) == [t |-> t, n |-> n]
NilErr == [isNil |-> TRUE, msg |-> <<>>]
Err(msg) == [isNil |-> FALSE, msg |-> msg]
\* fmt.Errorf(prefix + "%v", e)
Wrap(prefix, e) == Err(<<Tok(prefix, 0)>> \o e.msg)
\* the text of error e occurs in the text of error f
ErrContains(f, e) ==
    \E i \in 0..(Len(f.msg) - Len(e.msg)) :
        SubSeq(f.msg, i + 1, i + Len(e.msg)) = e.msg

\* runCmd: the error of the n-th failing run of command cmd
CmdErr(cmd, n) == Err(<<Tok(cmd, n)>>)

\* combineErr: the messages of the non-nil errors joined by ": ", nil when
\* the joined message is empty
RECURSIVE CombineRoot(_, _)
CombineRoot(root, errs) ==
    IF errs = <<>> THEN root
    ELSE IF Head(errs).isNil THEN CombineRoot(root, Tail(errs))
    ELSE IF root # <<>>
         THEN CombineRoot(root \o <<Tok(": ", 0)>> \o Head(errs).msg, Tail(errs))
         ELSE CombineRoot(Head(errs).msg, Tail(errs))

combineErr(errs) ==
    LET root == CombineRoot(<<>>, errs)
    IN  IF root = <<>> THEN NilErr ELSE Err(root)

(***************************************************************************)
(* The bounded retry loop connect(retryCount, baseRetryDelay, connectFunc).*)
(* A loop state holds the loop's locals; ConnectIter is one turn of the    *)
(* loop for a connectFunc that returned e.                                 *)
(***************************************************************************)
ConnectLoop(retryCount, baseRetryDelay) ==
    [i |-> 0, retryCount |-> retryCount, baseRetryDelay |-> baseRetryDelay,
     err |-> NilErr, returned |-> FALSE, sleeps |-> <<>>]

\* the loop condition i < retryCount, while the function has not returned
ConnectCanRun(l) == ~l.returned /\ l.i < l.retryCount

ConnectIterSkipSleepAtLast(l, e) ==
    IF e.isNil
    THEN [l EXCEPT !.err = e, !.returned = TRUE]
    ELSE IF l.i + 1 = l.retryCount
    THEN [l EXCEPT !.err = e, !.i = @ + 1]
    ELSE [l EXCEPT !.err = e, !.sleeps = Append(@, l.baseRetryDelay),
                   !.baseRetryDelay = 2 * @, !.i = @ + 1]

ConnectIterKeepFirstErr(l, e) ==
    IF e.isNil
    THEN [l EXCEPT !.err = e, !.returned = TRUE]
    ELSE [l EXCEPT !.err = IF l.err.isNil THEN e ELSE l.err,
                   !.sleeps = Append(@, l.baseRetryDelay),
                   !.baseRetryDelay = 2 * @, !.i = @ + 1]

ConnectIter(l, e) ==
    IF e.isNil
    THEN [l EXCEPT !.err = e, !.returned = TRUE]
    ELSE [l EXCEPT !.err = e, !.sleeps = Append(@, l.baseRetryDelay),
                   !.baseRetryDelay = 2 * @, !.i = @ + 1]

\* the whole loop, for a connectFunc whose successive results are outcomes
\* (the results of the invocations the loop does not make are not read)
RECURSIVE ConnectRun(_, _)
ConnectRun(l, outcomes) ==
    IF ConnectCanRun(l) /\ outcomes # <<>>
    THEN ConnectRun(ConnectIter(l, Head(outcomes)), Tail(outcomes))
    ELSE l

(***************************************************************************)
(* Options and configurations.                                             *)
(***************************************************************************)
KeyMs    == <<"m","s">>
KeyMysql == <<"m","y","s","q","l">>
KeySvcA  == <<"s","v","c","A">>
KeySvcB  == <<"s","v","c","B">>
KeyCli   == <<"c","l","i">>
KeyOld   == <<"o","l","d">>

Service(image) == [Image |-> image, Networks |-> <<>>]
\* a Service that declares networks
ServiceOn(image, networks) == [Image |-> image, Networks |-> networks]
Network(driver) == [Driver |-> driver, External |-> ""]
\* the nil map and the nil slice
Nil == <<>>

\* Config values: Networks is the map[string]*Network, Services the
\* map[string]Service.  svcA and svcB declare networks.
ConfigMsMysql ==
    [Networks |-> Nil,
     Services |-> [k \in {KeyMs, KeyMysql} |-> Service("img")]]
ConfigSvcAB ==
    [Networks |-> [n \in {"front", "back"} |-> Network("bridge")],
     Services |-> [k \in {KeySvcA, KeySvcB} |->
                     IF k = KeySvcA THEN ServiceOn("img", <<"front", "back">>)
                     ELSE ServiceOn("img", <<"back">>)]]
ConfigCliMs ==
    [Networks |-> Nil,
     Services |-> [k \in {KeyCli, KeyMs} |-> Service("img")]]

\* yaml.Marshal of a Service and of a Config: the document's keys and
\* values; a field tagged omitempty that is empty has no key
MarshalService(svc) ==
    [f \in {g \in {"image", "networks"} :
              \/ g = "image" /\ svc.Image # ""
              \/ g = "networks" /\ svc.Networks # Nil} |->
        IF f = "image" THEN svc.Image ELSE svc.Networks]

Marshal(cfg) ==
    [f \in {g \in {"networks", "services"} :
              \/ g = "networks" /\ cfg.Networks # Nil
              \/ g = "services" /\ cfg.Services # Nil} |->
        IF f = "networks" THEN cfg.Networks
        ELSE [k \in DOMAIN cfg.Services |-> MarshalService(cfg.Services[k])]]

\* yaml.Unmarshal into a zero Service and a zero Config: a field whose key
\* the document lacks keeps its zero value
UnmarshalService(doc) ==
    [Image    |-> IF "image" \in DOMAIN doc THEN doc["image"] ELSE "",
     Networks |-> IF "networks" \in DOMAIN doc THEN doc["networks"] ELSE Nil]

Unmarshal(doc) ==
    [Networks |-> IF "networks" \in DOMAIN doc THEN doc["networks"] ELSE Nil,
     Services |-> IF "services" \in DOMAIN doc
                  THEN [k \in DOMAIN doc["services"] |->
                          UnmarshalService(doc["services"][k])]
                  ELSE Nil]

\* Start's loop over cmpCFG.Services, after cmpCFG.Networks = nil
StripNetworks(cmpCFG) ==
    [Networks |-> Nil,
     Services |-> [k \in DOMAIN cmpCFG.Services |->
                     [cmpCFG.Services[k] EXCEPT !.Networks = Nil]]]

\* what Start makes of the configuration compose it is given: the caller's
\* Config after Start's writes (Start writes to its copy only), the copy
\* without networks, and the text written to the file
StartConfigShallowCopy(compose) ==
    LET cmpCFG == StripNetworks(compose)
    IN  [caller  |-> [compose EXCEPT !.Services = cmpCFG.Services],
         cmpCFG  |-> cmpCFG,
         fileStr |-> Marshal(cmpCFG)]

StartConfig(compose) ==
    LET bs     == Marshal(compose)
        cmpCFG == StripNetworks(Unmarshal(bs))
    IN  [caller  |-> compose,
         cmpCFG  |-> cmpCFG,
         fileStr |-> Marshal(cmpCFG)]

NameTestGoodYML == <<"T","e","s","t","G","o","o","d","Y","M","L">>
NameSvcA        == <<"s","_","v","c","A">>
DefaultProjectName == <<"d","c","c","l","i">>

\* OptionWithProjectName: lowercases everything and strips all underscores
OptionWithProjectNameNoLower(p) ==
    IF p # <<>> THEN RemoveChar(p, "_") ELSE p

OptionWithProjectName(p) ==
    IF p # <<>> THEN RemoveChar(ToLower(p), "_") ELSE p

\* the option lists Start is called with: the project name option (or none),
\* the compose configuration
Scenarios ==
    { [named |-> TRUE,  name |-> NameTestGoodYML, compose |-> ConfigMsMysql],
      [named |-> FALSE, name |-> <<>>,            compose |-> ConfigSvcAB],
      [named |-> TRUE,  name |-> NameSvcA,        compose |-> ConfigSvcAB],
      [named |-> FALSE, name |-> <<>>,            compose |-> ConfigCliMs] }

\* OptionStartRetries(count), or no such option
RetryOptions ==
    {[given |-> FALSE, count |-> 0]}
    \cup {[given |-> TRUE, count |-> n] : n \in 0..MaxTries}

\* the internalCFG Start builds: its defaults, then every option applied
InternalCFG(o) ==
    [forcePull    |-> o.forcePull,
     rmFirst      |-> o.rmFirst,
     compose      |-> o.compose,
     projectName  |-> IF o.named THEN OptionWithProjectName(o.name)
                      ELSE DefaultProjectName,
     connectTries |-> IF o.retriesGiven THEN o.retries
                      ELSE DefaultConnectTries,
     keeparound   |-> o.keeparound,
     preventStop  |-> o.preventStop,
     outFile      |-> "tmp"]

(***************************************************************************)
(* The container runtime and the launcher, as the code sees them.          *)
(***************************************************************************)
\* the runtime identifier the runtime gives the container of service key k
RuntimeID(k) ==
    CASE k = KeyMs    -> "id-ms"
      [] k = KeyMysql -> "id-mysql"
      [] k = KeySvcA  -> "id-svcA"
      [] k = KeySvcB  -> "id-svcB"
      [] k = KeyCli   -> "id-cli"
      [] OTHER        -> "id-old"

\* the launcher's name for the first container of service k of a project
RuntimeName(projectName, k) ==
    <<"/">> \o projectName \o <<"_">> \o k \o <<"_", "1">>

\* a container's status: its identifier, its name, whether it is running
ContainerInfo(id, name) == [ID |-> id, Name |-> name, Running |-> TRUE]
NoContainer == [ID |-> "", Name |-> <<>>, Running |-> FALSE]

\* the containers of the project: one per service, and one left over from a
\* service (old) that the configuration no longer has
ProjectContainers(projectName, compose) ==
    { ContainerInfo(RuntimeID(k), RuntimeName(projectName, k)) :
        k \in DOMAIN compose.Services \cup {KeyOld} }

\* the same containers when running says whether they (still) run
ProjectContainersNow(projectName, compose, running) ==
    { [w EXCEPT !.Running = running] :
        w \in ProjectContainers(projectName, compose) }

\* Inspect(id): the container's status, or an error for an identifier the
\* runtime cannot inspect (now)
Inspect(id, world, failing) ==
    IF id \in failing \/ ~(\E w \in world : w.ID = id)
    THEN [container |-> NoContainer,
          err |-> Err(<<Tok("inspect failed: ", 0), Tok(id, 0)>>)]
    ELSE [container |-> CHOOSE w \in world : w.ID = id, err |-> NilErr]

\* log lines of "--verbose up -d"
InspectLine(id) == [kind |-> "inspect_container", id |-> id]
StartLine == [kind |-> "docker start", id |-> ""]
OtherLine == [kind |-> "other", id |-> ""]

Range(f) == {f[x] : x \in DOMAIN f}
KeySeq(S) == CHOOSE q \in [1..Cardinality(S) -> S] : Range(q) = S
Reverse(q) == [i \in 1..Len(q) |-> q[Len(q) + 1 - i]]

\* outputs of a successful "up" of the configuration: every service's
\* container in order; in reverse order, with a repeated line and a line
\* without an identifier; with the left-over container among them
UpOutputs(compose) ==
    LET keys == KeySeq(DOMAIN compose.Services)
        all  == [i \in 1..Len(keys) |-> InspectLine(RuntimeID(keys[i]))]
        rev  == Reverse(all)
    IN  { <<StartLine>> \o all,
          <<rev[1], InspectLine("")>> \o rev \o <<OtherLine>>,
          <<all[1], InspectLine(RuntimeID(KeyOld))>> \o Tail(all) }

\* the identifiers Inspect may fail on during one updateContainers: none,
\* or the last of ids
InspectFailures(ids) ==
    {{}} \cup (IF ids = <<>> THEN {} ELSE {{ids[Len(ids)]}})

(***************************************************************************)
(* The identity resolver.                                                  *)
(***************************************************************************)
\* composeUpRegexp.FindAllStringSubmatch: the lines that match, each with
\* its submatch 1 (empty for the "docker start" alternative)
RECURSIVE FindAllStringSubmatch(_)
FindAllStringSubmatch(out) ==
    IF out = <<>> THEN <<>>
    ELSE IF Head(out).kind = "inspect_container"
         THEN <<Head(out).id>> \o FindAllStringSubmatch(Tail(out))
    ELSE IF Head(out).kind = "docker start"
         THEN <<"">> \o FindAllStringSubmatch(Tail(out))
    ELSE FindAllStringSubmatch(Tail(out))

\* the loop of Start's closure over the matches: ids with match[1] != ""
RECURSIVE ScrapeIds(_)
ScrapeIds(matches) ==
    IF matches = <<>> THEN <<>>
    ELSE IF Head(matches) # ""
         THEN <<Head(matches)>> \o ScrapeIds(Tail(matches))
         ELSE ScrapeIds(Tail(matches))

\* findKey: the keys the range over the map may return (the map's iteration
\* order is not specified), "" when no key is a substring
findKeyAnyWhenNoHit(dockerName, serviceNames) ==
    LET hits == {k \in DOMAIN serviceNames : Contains(dockerName, k)}
    IN  IF hits = {} THEN DOMAIN serviceNames ELSE hits

findKey(dockerName, serviceNames) ==
    LET hits == {k \in DOMAIN serviceNames : Contains(dockerName, k)}
    IN  IF hits = {} THEN {<<>>} ELSE hits

MapPut(m, key, v) ==
    [k \in DOMAIN m \cup {key} |-> IF k = key THEN v ELSE m[k]]
EmptyMap == [k \in {} |-> NoContainer]

\* updateContainers from identifier ids on: the results it may end with,
\* each the error returned, the containers map it leaves, and the Inspect
\* calls it has made (the identifier, and what Inspect returned)
RECURSIVE updateContainers(_, _, _, _, _)
updateContainers(ids, containers, services, world, failing) ==
    IF ids = <<>>
    THEN {[err |-> NilErr, containers |-> containers, inspected |-> <<>>]}
    ELSE LET r == Inspect(Head(ids), world, failing)
             call == [id |-> Head(ids), container |-> r.container, err |-> r.err]
         IN  IF ~r.err.isNil
             THEN {[err |-> r.err, containers |-> containers,
                    inspected |-> <<call>>]}
             ELSE UNION {
                    IF key = <<>>
                    THEN {[err |-> Err(<<Tok("could not map key: , to list of services", 0)>>),
                           containers |-> containers, inspected |-> <<call>>]}
                    ELSE { [x EXCEPT !.inspected = <<call>> \o @] :
                           x \in updateContainers(Tail(ids),
                                                  MapPut(containers, key, r.container),
                                                  services, world, failing) }
                    : key \in findKey(Tail(r.container.Name), services) }

(***************************************************************************)
(* Retry policies.  Durations are in milliseconds.                         *)
(***************************************************************************)
NewSimpleRetryPolicy(retries, wait) ==
    [kind |-> "simple", NumRetries |-> retries, Wait |-> wait, n |-> 0]

NewExponentialBackoffRetryPolicy(retries, min, max) ==
    [kind |-> "exp", NumRetries |-> retries, Min |-> min, Max |-> max, n |-> 0]

\* SimpleRetryPolicy.AttemptAgain(err): the policy after the call, and the
\* two values returned
SimpleAttemptAgainOffByOne(s, err) ==
    [policy |-> [s EXCEPT !.n = @ + 1], out |-> s.n <= s.NumRetries, wait |-> s.Wait]

SimpleAttemptAgainResetOnDecline(s, err) ==
    [policy |-> [s EXCEPT !.n = IF s.n < s.NumRetries THEN @ + 1 ELSE 0],
     out |-> s.n < s.NumRetries, wait |-> s.Wait]

SimpleAttemptAgain(s, err) ==
    [policy |-> [s EXCEPT !.n = @ + 1], out |-> s.n < s.NumRetries, wait |-> s.Wait]

\* getExponentialTime(min, max, attempts), rand.Float64() being j/JitterSteps.
\* napDuration = min * 2^(attempts-1) + rand * min - min/2 is computed
\* exactly, as nap / (2 * JitterSteps); time.Duration() drops the fraction.
getExponentialTimeNoMax(min, max, attempts, j) ==
    LET minE == IF min <= 0 THEN DefaultMin ELSE min
        nap  == minE * JitterSteps * 2 ^ attempts + 2 * j * minE - minE * JitterSteps
    IN  nap \div (2 * JitterSteps)

getExponentialTimeExponentAttempts(min, max, attempts, j) ==
    LET minE == IF min <= 0 THEN DefaultMin ELSE min
        maxE == IF max <= 0 THEN DefaultMax ELSE max
        nap  == minE * JitterSteps * 2 ^ (attempts + 1) + 2 * j * minE
                    - minE * JitterSteps
    IN  IF nap > maxE * 2 * JitterSteps THEN maxE
        ELSE nap \div (2 * JitterSteps)

getExponentialTime(min, max, attempts, j) ==
    LET minE == IF min <= 0 THEN DefaultMin ELSE min
        maxE == IF max <= 0 THEN DefaultMax ELSE max
        nap  == minE * JitterSteps * 2 ^ attempts + 2 * j * minE - minE * JitterSteps
    IN  IF nap > maxE * 2 * JitterSteps THEN maxE
        ELSE nap \div (2 * JitterSteps)

\* ExponentialBackoffRetryPolicy.AttemptAgain(err)
ExponentialAttemptAgain(e, err, j) ==
    [policy |-> [e EXCEPT !.n = @ + 1], out |-> e.n < e.NumRetries,
     wait |-> getExponentialTime(e.Min, e.Max, e.n, j)]

\* policy.AttemptAgain(err) through the RetryPolicy interface
AttemptAgain(p, err, j) ==
    IF p.kind = "simple" THEN SimpleAttemptAgain(p, err)
    ELSE ExponentialAttemptAgain(p, err, j)

\* the jitter draws AttemptAgain may make
Jitters(p) == IF p.kind = "simple" THEN {0} ELSE 0..(JitterSteps - 1)

Waits == {0, 1000}
Mins == {0, 8, 30000}
Maxs == {-1, 0, 20}
Policies ==
    {NewSimpleRetryPolicy(r, w) : r \in 0..MaxRetries, w \in Waits}
    \cup {NewExponentialBackoffRetryPolicy(r, mn, mx) :
            r \in 0..MaxRetries, mn \in Mins, mx \in Maxs}

(***************************************************************************)
(* State.                                                                  *)
(***************************************************************************)
VARIABLES
    opts,       \* the options Start is called with
    pc,         \* "init", "connect" (in Start's connect loop), "started",
                \* "failed" (Start returned an error), "cleaned"
    c,          \* the Compose value Start builds: ids, containers, fileName,
                \* projectName, publicCfg, cfg
    loop,       \* the locals of Start's connect loop
    calls,      \* the commands the operation in progress (or the last
                \* one) has run, in order
    attempts,   \* the error of every call of Start's connectFunc
    startUps,   \* how many times Start has run "up"
    startRet,   \* what Start returned: a Compose or nil, and the error
    ret,        \* what the last GetContainer or Cleanup returned
    policy,     \* a retry policy: its fields and its counter n
    answers,    \* what every AttemptAgain of the policy has returned
    conn,       \* the Connect call in progress (or the last one): its
                \* locals, the probes made, the policy's answers, the
                \* sleeps made
    dockerHost, \* the value of the environment variable DOCKER_HOST
    hostRet,    \* what the last InferDockerHost or MustInferDockerHost
                \* returned
    retry,      \* a call of connect(retryCount, baseRetryDelay, connectFunc):
                \* its arguments, the loop's locals, what every call of
                \* connectFunc returned
    two,        \* two instances side by side: for each its options, where
                \* it is (as pc), its Compose value, the locals of its
                \* Start's connect loop, what its last operation returned
    files,      \* the files the two instances have written: name to text
    runtime,    \* the containers the runtime has, for the two instances
    callers     \* the callers that run Connect on one instance at the same
                \* time: for each the policy it was given, the policy as
                \* it is now, what its probe answers turn by turn, and the
                \* locals of its Connect

orchVars == <<opts, pc, c, loop, calls, attempts, startUps, startRet, ret>>
polVars == <<policy, answers, conn>>
utilVars == <<dockerHost, hostRet, retry>>
twoVars == <<two, files, runtime>>
concVars == <<callers>>
vars == <<opts, pc, c, loop, calls, attempts, startUps, startRet, ret,
          policy, answers, conn, dockerHost, hostRet, retry,
          two, files, runtime, callers>>

\* one run of the launcher (docker-compose -f fName -p pName cmd) or of
\* the runtime (docker cmd), for operation op
Call(op, cmd, fName, pName, ok) ==
    [op |-> op, name |-> "docker-compose", cmd |-> cmd, file |-> fName,
     project |-> pName, ok |-> ok]
DockerCall(op, cmd, ok) ==
    [op |-> op, name |-> "docker", cmd |-> cmd, file |-> "",
     project |-> <<>>, ok |-> ok]

NoCompose ==
    [ids |-> <<>>, containers |-> EmptyMap, fileName |-> "",
     projectName |-> <<>>, publicCfg |-> [Networks |-> Nil, Services |-> Nil],
     cfg |-> [keeparound |-> FALSE, preventStop |-> FALSE]]

NoRet == [op |-> "none", err |-> NilErr]

NoConnect ==
    [pc |-> "idle", startN |-> 0, probes |-> 0, failures |-> 0,
     asked |-> <<>>, sleeps |-> <<>>, err |-> NilErr]

NoHostRet == [op |-> "none", host |-> <<>>, err |-> NilErr, panic |-> FALSE]

NoRetry ==
    [retryCount |-> 0, baseRetryDelay |-> 0, loop |-> ConnectLoop(0, 0),
     results |-> <<>>, done |-> FALSE, err |-> NilErr]

\* DOCKER_HOST is not set, no InferDockerHost and no connect has run
UtilIdle ==
    /\ dockerHost = <<>>
    /\ hostRet = NoHostRet
    /\ retry = NoRetry

\* no second pair of instances
TwoIdle ==
    /\ two = <<>>
    /\ files = <<>>
    /\ runtime = {}

\* no callers of Connect side by side
ConcIdle == callers = <<>>

Init ==
    /\ \E sc \in Scenarios, fp \in BOOLEAN, rf \in BOOLEAN,
          ka \in BOOLEAN, ps \in BOOLEAN, rt \in RetryOptions :
          opts = [named |-> sc.named, name |-> sc.name,
                  compose |-> sc.compose,
                  forcePull |-> fp, rmFirst |-> rf,
                  keeparound |-> ka, preventStop |-> ps,
                  retriesGiven |-> rt.given, retries |-> rt.count]
    /\ pc = "init"
    /\ c = NoCompose
    /\ loop = ConnectLoop(0, 0)
    /\ calls = <<>>
    /\ attempts = <<>>
    /\ startUps = 0
    /\ startRet = [c |-> FALSE, err |-> NilErr]
    /\ ret = NoRet
    /\ policy = NewSimpleRetryPolicy(0, 0)
    /\ answers = <<>>
    /\ conn = NoConnect
    /\ UtilIdle
    /\ TwoIdle
    /\ ConcIdle

(***************************************************************************)
(* Start.                                                                  *)
(***************************************************************************)
\* Start up to its connect loop: the configuration is rendered and written,
\* then pull (forcePull), then kill and rm (rmFirst).  env says which of
\* these steps work.  The result: the commands run and the error Start
\* returns with, nil when it goes on.
StartPreludeIgnoreKillErr(cfg, env) ==
    LET pull == Call("Start", "pull", cfg.outFile, cfg.projectName, env.pull)
        kill == Call("Start", "kill", cfg.outFile, cfg.projectName, env.kill)
        rm   == Call("Start", "rm", cfg.outFile, cfg.projectName, env.rm)
    IN  IF ~env.render
        THEN [calls |-> <<>>, err |-> Err(<<Tok("render", 0)>>)]
        ELSE IF cfg.forcePull /\ ~env.pull
        THEN [calls |-> <<pull>>,
              err |-> Wrap("compose: error pulling images: ", CmdErr("pull", 1))]
        ELSE LET pre == IF cfg.forcePull THEN <<pull>> ELSE <<>>
             IN  IF ~cfg.rmFirst THEN [calls |-> pre, err |-> NilErr]
                 ELSE IF ~env.rm
                 THEN [calls |-> pre \o <<kill, rm>>,
                       err |-> Wrap("compose: error removing stale containers: ",
                                    CmdErr("rm", 1))]
                 ELSE [calls |-> pre \o <<kill, rm>>, err |-> NilErr]

StartPrelude(cfg, env) ==
    LET pull == Call("Start", "pull", cfg.outFile, cfg.projectName, env.pull)
        kill == Call("Start", "kill", cfg.outFile, cfg.projectName, env.kill)
        rm   == Call("Start", "rm", cfg.outFile, cfg.projectName, env.rm)
    IN  IF ~env.render
        THEN [calls |-> <<>>, err |-> Err(<<Tok("render", 0)>>)]
        ELSE IF cfg.forcePull /\ ~env.pull
        THEN [calls |-> <<pull>>,
              err |-> Wrap("compose: error pulling images: ", CmdErr("pull", 1))]
        ELSE LET pre == IF cfg.forcePull THEN <<pull>> ELSE <<>>
             IN  IF ~cfg.rmFirst THEN [calls |-> pre, err |-> NilErr]
                 ELSE IF ~env.kill
                 THEN [calls |-> pre \o <<kill>>,
                       err |-> Wrap("compose: error killing stale containers: ",
                                    CmdErr("kill", 1))]
                 ELSE IF ~env.rm
                 THEN [calls |-> pre \o <<kill, rm>>,
                       err |-> Wrap("compose: error removing stale containers: ",
                                    CmdErr("rm", 1))]
                 ELSE [calls |-> pre \o <<kill, rm>>, err |-> NilErr]

\* the Compose value Start makes before the connect loop
NewCompose(cfg) ==
    [ids |-> <<>>, containers |-> EmptyMap, fileName |-> cfg.outFile,
     projectName |-> cfg.projectName,
     publicCfg |-> StartConfig(cfg.compose).cmpCFG,
     cfg |-> [keeparound |-> cfg.keeparound, preventStop |-> cfg.preventStop]]

StartBegin ==
    /\ pc = "init"
    /\ \E env \in [render : BOOLEAN, pull : BOOLEAN, kill : BOOLEAN, rm : BOOLEAN] :
        LET cfg == InternalCFG(opts)
            r   == StartPrelude(cfg, env)
        IN  /\ calls' = calls \o r.calls
            /\ opts' = IF env.render
                       THEN [opts EXCEPT !.compose = StartConfig(cfg.compose).caller]
                       ELSE opts
            /\ IF r.err.isNil
               THEN /\ pc' = "connect"
                    /\ c' = NewCompose(cfg)
                    /\ loop' = ConnectLoop(cfg.connectTries, StartRetryDelay)
                    /\ startRet' = startRet
               ELSE /\ pc' = "failed"
                    /\ startRet' = [c |-> FALSE, err |-> r.err]
                    /\ UNCHANGED <<c, loop>>
    /\ UNCHANGED <<attempts, startUps, ret>>
    /\ UNCHANGED polVars
    /\ UNCHANGED utilVars
    /\ UNCHANGED twoVars
    /\ UNCHANGED concVars

\* what Start does when connect has returned err
StartAfterConnect(err) ==
    IF ~err.isNil
    THEN /\ pc' = "failed"
         /\ startRet' = [c |-> FALSE,
                         err |-> Wrap("compose: error starting containers: ", err)]
    ELSE /\ pc' = "started"
         /\ startRet' = [c |-> TRUE, err |-> NilErr]

\* one turn of connect's loop in Start: the closure runs "up", scrapes the
\* identifiers from its output and updates the containers
StartAttemptIgnoreUpdateErr ==
    /\ pc = "connect"
    /\ ConnectCanRun(loop)
    /\ \E upOk \in BOOLEAN :
        /\ calls' = Append(calls, Call("Start", "up", c.fileName, c.projectName, upOk))
        /\ IF ~upOk
           THEN /\ c' = c
                /\ attempts' = Append(attempts, CmdErr("up", loop.i + 1))
           ELSE \E out \in UpOutputs(c.publicCfg) :
                LET ids == ScrapeIds(FindAllStringSubmatch(out))
                    world == ProjectContainers(c.projectName, c.publicCfg)
                IN  \E failing \in InspectFailures(ids) :
                    \E r \in updateContainers(ids, c.containers,
                                              c.publicCfg.Services, world, failing) :
                       /\ c' = [c EXCEPT !.ids = ids, !.containers = r.containers]
                       /\ attempts' = Append(attempts, NilErr)
        /\ startUps' = startUps + 1
        /\ loop' = ConnectIter(loop, attempts'[Len(attempts')])
        /\ IF loop'.returned
           THEN StartAfterConnect(loop'.err)
           ELSE UNCHANGED <<pc, startRet>>
    /\ UNCHANGED <<opts, ret>>
    /\ UNCHANGED polVars
    /\ UNCHANGED utilVars
    /\ UNCHANGED twoVars
    /\ UNCHANGED concVars

StartAttempt ==
    /\ pc = "connect"
    /\ ConnectCanRun(loop)
    /\ \E upOk \in BOOLEAN :
        LET cfg == InternalCFG(opts) IN
        /\ calls' = Append(calls, Call("Start", "up", c.fileName, c.projectName, upOk))
        /\ IF ~upOk
           THEN /\ c' = c
                /\ attempts' = Append(attempts, CmdErr("up", loop.i + 1))
           ELSE \E out \in UpOutputs(c.publicCfg) :
                LET ids == ScrapeIds(FindAllStringSubmatch(out))
                    world == ProjectContainers(c.projectName, c.publicCfg)
                IN  \E failing \in InspectFailures(ids) :
                    \E r \in updateContainers(ids, c.containers,
                                              c.publicCfg.Services, world, failing) :
                       /\ c' = [c EXCEPT !.ids = ids, !.containers = r.containers]
                       /\ attempts' = Append(attempts, r.err)
        /\ startUps' = startUps + 1
        /\ loop' = ConnectIter(loop, attempts'[Len(attempts')])
        /\ IF loop'.returned
           THEN StartAfterConnect(loop'.err)
           ELSE UNCHANGED <<pc, startRet>>
    /\ UNCHANGED <<opts, ret>>
    /\ UNCHANGED polVars
    /\ UNCHANGED utilVars
    /\ UNCHANGED twoVars
    /\ UNCHANGED concVars

\* connect's loop ends with i = retryCount: connect returns err
StartExhausted ==
    /\ pc = "connect"
    /\ ~ConnectCanRun(loop)
    /\ StartAfterConnect(loop.err)
    /\ UNCHANGED <<opts, c, loop, calls, attempts, startUps, ret>>
    /\ UNCHANGED polVars
    /\ UNCHANGED utilVars
    /\ UNCHANGED twoVars
    /\ UNCHANGED concVars

(***************************************************************************)
(* GetContainer.                                                           *)
(***************************************************************************)
\* what GetContainer(key) returns when its updateContainers has ended with
\* r: the container (or nil) and the error; refresh and inspected record
\* how the updateContainers went
GetContainerResultLookupAnyway(key, r) ==
    IF key \notin DOMAIN r.containers
    THEN [op |-> "GetContainer", key |-> key, info |-> NoContainer,
          err |-> Err(<<Tok("no container found", 0)>>),
          refresh |-> r.err, inspected |-> r.inspected]
    ELSE [op |-> "GetContainer", key |-> key, info |-> r.containers[key],
          err |-> NilErr, refresh |-> r.err, inspected |-> r.inspected]

GetContainerResult(key, r) ==
    IF ~r.err.isNil
    THEN [op |-> "GetContainer", key |-> key, info |-> NoContainer, err |-> r.err,
          refresh |-> r.err, inspected |-> r.inspected]
    ELSE IF key \notin DOMAIN r.containers
    THEN [op |-> "GetContainer", key |-> key, info |-> NoContainer,
          err |-> Err(<<Tok("no container found", 0)>>),
          refresh |-> r.err, inspected |-> r.inspected]
    ELSE [op |-> "GetContainer", key |-> key, info |-> r.containers[key],
          err |-> NilErr, refresh |-> r.err, inspected |-> r.inspected]

\* GetContainer(key), while the containers are running (TRUE in runs) or
\* have stopped running (FALSE in runs)
GetContainerIn(runs) ==
    /\ pc = "started"
    /\ \E key \in DOMAIN c.publicCfg.Services \cup {KeyOld},
          running \in runs,
          failing \in InspectFailures(c.ids) :
        \E r \in updateContainers(c.ids, c.containers, c.publicCfg.Services,
                                  ProjectContainersNow(c.projectName, c.publicCfg,
                                                       running),
                                  failing) :
            /\ c' = [c EXCEPT !.containers = r.containers]
            /\ ret' = GetContainerResult(key, r)
    /\ calls' = <<>>
    /\ attempts' = <<>>
    /\ loop' = ConnectLoop(0, 0)
    /\ UNCHANGED <<opts, pc, startUps, startRet>>
    /\ UNCHANGED polVars
    /\ UNCHANGED utilVars
    /\ UNCHANGED twoVars
    /\ UNCHANGED concVars

\* GetContainer(key) while every container of the project is running
GetContainer == GetContainerIn({TRUE})

\* GetContainer(key) whatever the containers' state
GetContainerAnyState == GetContainerIn(BOOLEAN)

(***************************************************************************)
(* Cleanup.                                                                *)
(***************************************************************************)
\* the inputs of one Cleanup: whether stop, kill and down work, and how many
\* of the first runs of the volume prune fail
CleanupEnvs ==
    [stop : BOOLEAN, kill : BOOLEAN, down : BOOLEAN, pruneFails : 0..PruneTries]

composeStopDefaultProject(fName, pName, ok) ==
    [calls |-> <<Call("Cleanup", "stop", fName, DefaultProjectName, ok)>>,
     err |-> IF ok THEN NilErr
             ELSE Wrap("compose: error stopping stale containers: ", CmdErr("stop", 1))]

composeStop(fName, pName, ok) ==
    [calls |-> <<Call("Cleanup", "stop", fName, pName, ok)>>,
     err |-> IF ok THEN NilErr
             ELSE Wrap("compose: error stopping stale containers: ", CmdErr("stop", 1))]

composeKill(fName, pName, ok) ==
    [calls |-> <<Call("Cleanup", "kill", fName, pName, ok)>>,
     err |-> IF ok THEN NilErr
             ELSE Wrap("compose: error killing stale containers: ", CmdErr("kill", 1))]

composeDown(fName, pName, ok) ==
    [calls |-> <<Call("Cleanup", "down", fName, pName, ok)>>,
     err |-> IF ok THEN NilErr
             ELSE Wrap("compose: error downing stale containers: ", CmdErr("down", 1))]

\* dockerPrune: connect(3, 2s, docker volume prune -f), whose first
\* pruneFails runs fail
dockerPrune(pruneFails) ==
    LET outcomes == [i \in 1..PruneTries |->
                        IF i <= pruneFails THEN CmdErr("volume prune", i) ELSE NilErr]
        l == ConnectRun(ConnectLoop(PruneTries, PruneRetryDelay), outcomes)
        runs == IF l.returned THEN l.i + 1 ELSE l.i
    IN  [calls |-> [i \in 1..runs |->
                      DockerCall("Cleanup", "volume prune", outcomes[i].isNil)],
         err |-> IF ~l.err.isNil
                 THEN Wrap("compose: error system prune: ", l.err)
                 ELSE NilErr,
         sleeps |-> l.sleeps]

\* Cleanup: the commands it runs and the error it returns
CleanupRunIgnoreKeepAround(cc, env) ==
    LET stop  == composeStop(cc.fileName, cc.projectName, env.stop)
        kill  == composeKill(cc.fileName, cc.projectName, env.kill)
        down  == composeDown(cc.fileName, cc.projectName, env.down)
        prune == dockerPrune(env.pruneFails)
        pre   == IF ~cc.cfg.preventStop THEN stop.calls ELSE <<>>
    IN  IF ~cc.cfg.preventStop /\ ~stop.err.isNil
        THEN [calls |-> pre, err |-> stop.err]
        ELSE [calls |-> pre \o kill.calls \o down.calls \o prune.calls,
              err |-> combineErr(<<kill.err, down.err, prune.err>>)]

CleanupRun(cc, env) ==
    LET stop  == composeStop(cc.fileName, cc.projectName, env.stop)
        kill  == composeKill(cc.fileName, cc.projectName, env.kill)
        down  == composeDown(cc.fileName, cc.projectName, env.down)
        prune == dockerPrune(env.pruneFails)
        pre   == IF ~cc.cfg.preventStop THEN stop.calls ELSE <<>>
    IN  IF ~cc.cfg.preventStop /\ ~stop.err.isNil
        THEN [calls |-> pre, err |-> stop.err]
        ELSE IF cc.cfg.keeparound
        THEN [calls |-> pre, err |-> NilErr]
        ELSE [calls |-> pre \o kill.calls \o down.calls \o prune.calls,
              err |-> combineErr(<<kill.err, down.err, prune.err>>)]

Cleanup ==
    /\ pc = "started"
    /\ \E env \in CleanupEnvs :
        LET r == CleanupRun(c, env)
        IN  /\ calls' = r.calls
            /\ ret' = [op |-> "Cleanup", env |-> env, err |-> r.err]
    /\ pc' = "cleaned"
    /\ attempts' = <<>>
    /\ loop' = ConnectLoop(0, 0)
    /\ UNCHANGED <<opts, c, startUps, startRet>>
    /\ UNCHANGED polVars
    /\ UNCHANGED utilVars
    /\ UNCHANGED twoVars
    /\ UNCHANGED concVars

Next ==
    \/ StartBegin
    \/ StartAttempt
    \/ StartExhausted
    \/ GetContainer
    \/ Cleanup

Spec == Init /\ [][Next]_vars

(***************************************************************************)
(* Connect and the retry policies.                                         *)
(***************************************************************************)
\* the error of the n-th run of the caller's connectFunc
ProbeErr(n) == CmdErr("probe", n)

\* one turn of Connect's loop: connectFunc runs (ok says whether it works);
\* on an error the policy is asked, and Connect returns or sleeps.  The
\* result: the call's locals, the policy, and what the policy answered (if
\* it was asked).
ConnectTurnSleepFirst(cn, p, ok, j) ==
    LET e == ProbeErr(cn.probes + 1)
        a == AttemptAgain(p, e, j)
    IN  IF ok
        THEN [conn |-> [cn EXCEPT !.probes = @ + 1, !.err = NilErr, !.pc = "done"],
              policy |-> p, asked |-> <<>>]
        ELSE [conn |-> [cn EXCEPT !.probes = @ + 1, !.failures = @ + 1, !.err = e,
                                  !.asked = Append(@, [retry |-> a.out, wait |-> a.wait]),
                                  !.sleeps = Append(@, a.wait),
                                  !.pc = IF a.out THEN "running" ELSE "done"],
              policy |-> a.policy,
              asked |-> <<[retry |-> a.out, wait |-> a.wait]>>]

ConnectTurn(cn, p, ok, j) ==
    LET e == ProbeErr(cn.probes + 1)
        a == AttemptAgain(p, e, j)
    IN  IF ok
        THEN [conn |-> [cn EXCEPT !.probes = @ + 1, !.err = NilErr, !.pc = "done"],
              policy |-> p, asked |-> <<>>]
        ELSE IF ~a.out
        THEN [conn |-> [cn EXCEPT !.probes = @ + 1, !.failures = @ + 1,
                                  !.asked = Append(@, [retry |-> a.out, wait |-> a.wait]),
                                  !.err = e, !.pc = "done"],
              policy |-> a.policy,
              asked |-> <<[retry |-> a.out, wait |-> a.wait]>>]
        ELSE [conn |-> [cn EXCEPT !.probes = @ + 1, !.failures = @ + 1,
                                  !.asked = Append(@, [retry |-> a.out, wait |-> a.wait]),
                                  !.err = e, !.sleeps = Append(@, a.wait)],
              policy |-> a.policy,
              asked |-> <<[retry |-> a.out, wait |-> a.wait]>>]

\* a caller calls policy.AttemptAgain(err) itself
PolicyAttemptAgain ==
    /\ conn.pc # "running"
    /\ policy.n < MaxCalls
    /\ \E err \in {NilErr, ProbeErr(0)}, j \in Jitters(policy) :
        LET a == AttemptAgain(policy, err, j)
        IN  /\ policy' = a.policy
            /\ answers' = Append(answers, [retry |-> a.out, wait |-> a.wait])
    /\ UNCHANGED conn
    /\ UNCHANGED orchVars
    /\ UNCHANGED utilVars
    /\ UNCHANGED twoVars
    /\ UNCHANGED concVars

\* c.Connect(policy, connectFunc) is called
ConnectBegin ==
    /\ pc = "started"
    /\ conn.pc # "running"
    /\ policy.n < MaxCalls
    /\ conn' = [NoConnect EXCEPT !.pc = "running", !.startN = policy.n]
    /\ UNCHANGED <<policy, answers>>
    /\ UNCHANGED orchVars
    /\ UNCHANGED utilVars
    /\ UNCHANGED twoVars
    /\ UNCHANGED concVars

\* one turn of the loop of the Connect in progress
ConnectStep ==
    /\ conn.pc = "running"
    /\ \E ok \in BOOLEAN, j \in Jitters(policy) :
        LET r == ConnectTurn(conn, policy, ok, j)
        IN  /\ conn' = r.conn
            /\ policy' = r.policy
            /\ answers' = answers \o r.asked
    /\ UNCHANGED orchVars
    /\ UNCHANGED utilVars
    /\ UNCHANGED twoVars
    /\ UNCHANGED concVars

\* the Compose of a Start that has succeeded at its first "up": project
\* "TestGoodYML", services ms and mysql
StartedOpts ==
    [named |-> TRUE, name |-> NameTestGoodYML, compose |-> ConfigMsMysql,
     forcePull |-> FALSE, rmFirst |-> FALSE, keeparound |-> FALSE,
     preventStop |-> FALSE, retriesGiven |-> TRUE, retries |-> 2]

StartedCompose ==
    LET cfg == InternalCFG(StartedOpts)
        out == CHOOSE o \in UpOutputs(cfg.compose) : o[1] = StartLine
        ids == ScrapeIds(FindAllStringSubmatch(out))
        r   == CHOOSE x \in updateContainers(ids, EmptyMap, cfg.compose.Services,
                               ProjectContainers(cfg.projectName, cfg.compose), {}) : TRUE
    IN  [NewCompose(cfg) EXCEPT !.ids = ids, !.containers = r.containers]

InitPolicy ==
    /\ opts = StartedOpts
    /\ pc = "started"
    /\ c = StartedCompose
    /\ loop = ConnectIter(ConnectLoop(2, StartRetryDelay), NilErr)
    /\ calls = <<Call("Start", "up", c.fileName, c.projectName, TRUE)>>
    /\ attempts = <<NilErr>>
    /\ startUps = 1
    /\ startRet = [c |-> TRUE, err |-> NilErr]
    /\ ret = NoRet
    /\ policy \in Policies
    /\ answers = <<>>
    /\ conn = NoConnect
    /\ UtilIdle
    /\ TwoIdle
    /\ ConcIdle

NextPolicy ==
    \/ PolicyAttemptAgain
    \/ ConnectBegin
    \/ ConnectStep

SpecPolicy == InitPolicy /\ [][NextPolicy]_vars

\* the Compose values of the Starts that have succeeded at their first "up"
\* (the launcher having reported every service's container in order)
StartedComposes(o) ==
    LET cfg == InternalCFG(o)
        out == CHOOSE x \in UpOutputs(cfg.compose) : x[1] = StartLine
        ids == ScrapeIds(FindAllStringSubmatch(out))
    IN  { [NewCompose(cfg) EXCEPT !.ids = ids, !.containers = r.containers] :
          r \in { x \in updateContainers(ids, EmptyMap, cfg.compose.Services,
                           ProjectContainers(cfg.projectName, cfg.compose), {}) :
                  x.err.isNil } }

\* after such a Start, for each of the configurations: GetContainer calls
\* while the containers run or have stopped
InitRefresh ==
    /\ \E sc \in Scenarios :
          opts = [StartedOpts EXCEPT !.named = sc.named, !.name = sc.name,
                                     !.compose = sc.compose]
    /\ pc = "started"
    /\ c \in StartedComposes(opts)
    /\ loop = ConnectIter(ConnectLoop(2, StartRetryDelay), NilErr)
    /\ calls = <<Call("Start", "up", c.fileName, c.projectName, TRUE)>>
    /\ attempts = <<NilErr>>
    /\ startUps = 1
    /\ startRet = [c |-> TRUE, err |-> NilErr]
    /\ ret = NoRet
    /\ policy = NewSimpleRetryPolicy(0, 0)
    /\ answers = <<>>
    /\ conn = NoConnect
    /\ UtilIdle
    /\ TwoIdle
    /\ ConcIdle

NextRefresh == GetContainerAnyState

SpecRefresh == InitRefresh /\ [][NextRefresh]_vars

\* the state InitPolicy starts the Compose in is one Start reaches
StartedComposeReached ==
    /\ opts = StartedOpts /\ pc = "started" /\ c = StartedCompose
    /\ loop = ConnectIter(ConnectLoop(2, StartRetryDelay), NilErr)
    /\ calls = <<Call("Start", "up", c.fileName, c.projectName, TRUE)>>
    /\ attempts = <<NilErr>> /\ startUps = 1
    /\ startRet = [c |-> TRUE, err |-> NilErr] /\ ret = NoRet

(***************************************************************************)
(* InferDockerHost, and connect called on its own.                         *)
(***************************************************************************)
HostChars == {":", "/", "h"}
TcpHost ==
    <<"t","c","p",":","/","/","1","9","2",".","1","6","8",".","9","9",".",
      "1","0","0",":","2","3","7","6">>
UnixHost == <<"u","n","i","x",":","/","/","/","v","a","r","/","r","u","n">>
TwoHosts == <<":","/","/","h",":",":","/","/","h",":">>
Localhost == <<"l","o","c","a","l","h","o","s","t">>
Loopback == <<"1","2","7",".","0",".","0",".","1">>
TcpHostName == <<"1","9","2",".","1","6","8",".","9","9",".","1","0","0">>

\* the values DOCKER_HOST is given
HostValues ==
    UNION {[1..n -> HostChars] : n \in 0..MaxHostLen}
    \cup {TcpHost, UnixHost, TwoHosts}

\* the least j >= from with s[j] = ":", Len(s) + 1 when there is none
RECURSIVE NextColon(_, _)
NextColon(s, from) ==
    IF from > Len(s) THEN Len(s) + 1
    ELSE IF s[from] = ":" THEN from
    ELSE NextColon(s, from + 1)

\* dockerHostRegexp "://([^:]+):" matches s at position i
MatchesAt(s, i) ==
    /\ i + 4 <= Len(s)
    /\ SubSeq(s, i, i + 2) = <<":", "/", "/">>
    /\ NextColon(s, i + 3) > i + 3
    /\ NextColon(s, i + 3) <= Len(s)

\* dockerHostRegexp.FindAllStringSubmatch(s, -1) from position from on:
\* the matches from left to right, none overlapping another, each with its
\* text and its submatch
RECURSIVE HostSubmatches(_, _)
HostSubmatches(s, from) ==
    IF from > Len(s) THEN <<>>
    ELSE IF MatchesAt(s, from)
    THEN LET end == NextColon(s, from + 3)
         IN  <<<<SubSeq(s, from, end), SubSeq(s, from + 3, end - 1)>>>>
             \o HostSubmatches(s, end + 1)
    ELSE HostSubmatches(s, from + 1)

InferDockerHost(envHost) ==
    IF Len(envHost) = 0 THEN [host |-> Loopback, err |-> NilErr]
    ELSE LET matches == HostSubmatches(envHost, 1)
         IN  IF Len(matches) # 1 \/ Len(matches[1]) # 2
             THEN [host |-> <<>>,
                   err |-> Err(<<Tok("compose: cannot parse DOCKER_HOST", 0)>>)]
             ELSE [host |-> matches[1][2], err |-> NilErr]

\* MustInferDockerHost: panics on an error
MustInferDockerHost(envHost) ==
    LET r == InferDockerHost(envHost)
    IN  [host |-> r.host, err |-> r.err, panic |-> ~r.err.isNil]

InferDockerHostCall ==
    /\ hostRet.op = "none"
    /\ LET r == InferDockerHost(dockerHost)
       IN  hostRet' = [op |-> "InferDockerHost", host |-> r.host, err |-> r.err,
                       panic |-> FALSE]
    /\ UNCHANGED <<dockerHost, retry>>
    /\ UNCHANGED orchVars
    /\ UNCHANGED polVars
    /\ UNCHANGED twoVars
    /\ UNCHANGED concVars

MustInferDockerHostCall ==
    /\ hostRet.op = "none"
    /\ LET r == MustInferDockerHost(dockerHost)
       IN  hostRet' = [op |-> "MustInferDockerHost", host |-> r.host,
                       err |-> r.err, panic |-> r.panic]
    /\ UNCHANGED <<dockerHost, retry>>
    /\ UNCHANGED orchVars
    /\ UNCHANGED polVars
    /\ UNCHANGED twoVars
    /\ UNCHANGED concVars

\* the base delays connect is called with
Delays == {1, 2, 100}

\* the error of the n-th call of a connectFunc
FuncErr(n) == CmdErr("connectFunc", n)

\* one turn of the loop of connect: connectFunc is called and fails or not
connectTurn ==
    /\ ~retry.done
    /\ ConnectCanRun(retry.loop)
    /\ \E ok \in BOOLEAN :
        LET e == IF ok THEN NilErr ELSE FuncErr(Len(retry.results) + 1)
            l == ConnectIter(retry.loop, e)
        IN  retry' = [retry EXCEPT !.loop = l, !.results = Append(@, e),
                                   !.done = l.returned,
                                   !.err = IF l.returned THEN l.err ELSE @]
    /\ UNCHANGED <<dockerHost, hostRet>>
    /\ UNCHANGED orchVars
    /\ UNCHANGED polVars
    /\ UNCHANGED twoVars
    /\ UNCHANGED concVars

\* the loop of connect ends with i = retryCount: connect returns err
connectReturn ==
    /\ ~retry.done
    /\ ~ConnectCanRun(retry.loop)
    /\ retry' = [retry EXCEPT !.done = TRUE, !.err = retry.loop.err]
    /\ UNCHANGED <<dockerHost, hostRet>>
    /\ UNCHANGED orchVars
    /\ UNCHANGED polVars
    /\ UNCHANGED twoVars
    /\ UNCHANGED concVars

InitUtil ==
    /\ opts = StartedOpts
    /\ pc = "init"
    /\ c = NoCompose
    /\ loop = ConnectLoop(0, 0)
    /\ calls = <<>>
    /\ attempts = <<>>
    /\ startUps = 0
    /\ startRet = [c |-> FALSE, err |-> NilErr]
    /\ ret = NoRet
    /\ policy = NewSimpleRetryPolicy(0, 0)
    /\ answers = <<>>
    /\ conn = NoConnect
    /\ dockerHost \in HostValues
    /\ hostRet = NoHostRet
    /\ \E n \in (-1)..MaxTries, d \in Delays :
          retry = [NoRetry EXCEPT !.retryCount = n, !.baseRetryDelay = d,
                                  !.loop = ConnectLoop(n, d)]
    /\ TwoIdle
    /\ ConcIdle

NextUtil ==
    \/ InferDockerHostCall
    \/ MustInferDockerHostCall
    \/ connectTurn
    \/ connectReturn

SpecUtil == InitUtil /\ [][NextUtil]_vars

(***************************************************************************)
(* Two instances side by side (TestParallelMustConnectWithDefaults): they  *)
(* share the runtime and the file system, nothing else.                    *)
(***************************************************************************)
Instances == {1, 2}
NameCompose1 == <<"c","o","m","p","o","s","e","1">>
NameCompose2 == <<"c","o","m","p","o","s","e","2">>

\* the options of Start for instance i: OptionWithProjectName("compose<i>"),
\* OptionRMFirst(true), OptionWithCompose(compose), and
\* OptionWriteToFile(outFile) unless outFile is ""
TwoOpts(i, compose, outFile) ==
    [named |-> TRUE, name |-> IF i = 1 THEN NameCompose1 ELSE NameCompose2,
     compose |-> compose, forcePull |-> FALSE, rmFirst |-> TRUE,
     keeparound |-> FALSE, preventStop |-> FALSE,
     retriesGiven |-> TRUE, retries |-> 2, outFile |-> outFile]

\* writeTmp for instance i: ioutil.TempFile makes a file no one else has
TmpFile(i) ==
    IF i = 1 THEN "docker-compose-1.yaml" ELSE "docker-compose-2.yaml"

\* the internalCFG of instance i's Start once the file is written
TwoCFG(i) ==
    [InternalCFG(two[i].opts) EXCEPT
        !.outFile = IF two[i].opts.outFile # "" THEN two[i].opts.outFile
                    ELSE TmpFile(i)]

\* the runtime identifier of the container of service k in project p
RuntimeIDIn(p, k) ==
    IF p = NameCompose1
    THEN CASE k = KeyMs    -> "c1-ms"
           [] k = KeyMysql -> "c1-mysql"
           [] k = KeySvcA  -> "c1-svcA"
           [] k = KeySvcB  -> "c1-svcB"
           [] OTHER        -> "c1-other"
    ELSE IF p = NameCompose2
    THEN CASE k = KeyMs    -> "c2-ms"
           [] k = KeyMysql -> "c2-mysql"
           [] k = KeySvcA  -> "c2-svcA"
           [] k = KeySvcB  -> "c2-svcB"
           [] OTHER        -> "c2-other"
    ELSE RuntimeID(k)

\* container w is one of project p: its name is "/<p>_..."
IsOfProject(w, p) ==
    /\ Len(w.Name) > Len(p) + 2
    /\ SubSeq(w.Name, 1, Len(p) + 2) = <<"/">> \o p \o <<"_">>

\* the launcher's "up" for project p with the file's text doc: a running
\* container for every service of the file
LauncherUp(rt, doc, p) ==
    LET services == DOMAIN Unmarshal(doc).Services
        made == { ContainerInfo(RuntimeIDIn(p, k), RuntimeName(p, k)) :
                    k \in services }
    IN  {w \in rt : \A x \in made : x.ID # w.ID} \cup made

\* the output of that "up"
UpOutputOf(doc, p) ==
    LET keys == KeySeq(DOMAIN Unmarshal(doc).Services)
    IN  <<StartLine>>
        \o [i \in 1..Len(keys) |-> InspectLine(RuntimeIDIn(p, keys[i]))]

\* "stop" and "kill" for project p: its containers run no more
LauncherStop(rt, p) ==
    { IF IsOfProject(w, p) THEN [w EXCEPT !.Running = FALSE] ELSE w : w \in rt }

\* "rm" and "down" for project p: its containers are gone
LauncherDown(rt, p) == {w \in rt : ~IsOfProject(w, p)}

\* the runtime after the launcher has run calls, from left to right
RECURSIVE ApplyCalls(_, _)
ApplyCalls(rt, cs) ==
    IF cs = <<>> THEN rt
    ELSE LET call == Head(cs)
             next == IF ~call.ok \/ call.name # "docker-compose" THEN rt
                     ELSE IF call.cmd \in {"stop", "kill"}
                     THEN LauncherStop(rt, call.project)
                     ELSE IF call.cmd \in {"rm", "down"}
                     THEN LauncherDown(rt, call.project)
                     ELSE rt
         IN  ApplyCalls(next, Tail(cs))

NoInstance(o) ==
    [opts |-> o, pc |-> "init", c |-> NoCompose, loop |-> ConnectLoop(0, 0),
     ret |-> NoRet]

\* instance i becomes inst: a Compose is a struct of its own, with a map of
\* its own (make(map[string]*ContainerInfo) in Start)
TwoPutSharedContainers(t, i, inst) ==
    [j \in DOMAIN t |->
        IF j = i THEN inst
        ELSE [t[j] EXCEPT !.c.containers = inst.c.containers]]

TwoPut(t, i, inst) == [t EXCEPT ![i] = inst]

\* Start of instance i up to its connect loop: the file is written, kill
\* and rm run (rm may fail)
TwoStartBegin(i) ==
    /\ two[i].pc = "init"
    /\ \E rmOk \in BOOLEAN :
        LET cfg == TwoCFG(i)
            sc  == StartConfig(cfg.compose)
            r   == StartPrelude(cfg, [render |-> TRUE, pull |-> TRUE,
                                      kill |-> TRUE, rm |-> rmOk])
            o   == [two[i].opts EXCEPT !.compose = sc.caller]
        IN  /\ files' = MapPut(files, cfg.outFile, sc.fileStr)
            /\ runtime' = ApplyCalls(runtime, r.calls)
            /\ two' = TwoPut(two, i,
                   IF r.err.isNil
                   THEN [two[i] EXCEPT !.opts = o, !.pc = "connect",
                            !.c = NewCompose(cfg),
                            !.loop = ConnectLoop(cfg.connectTries, StartRetryDelay)]
                   ELSE [two[i] EXCEPT !.opts = o, !.pc = "failed",
                            !.ret = [op |-> "Start", err |-> r.err]])
    /\ UNCHANGED orchVars
    /\ UNCHANGED polVars
    /\ UNCHANGED utilVars
    /\ UNCHANGED concVars

\* one turn of the connect loop of instance i's Start, and Start's return
\* when the loop ends with it
TwoStartAttempt(i) ==
    /\ two[i].pc = "connect"
    /\ ConnectCanRun(two[i].loop)
    /\ \E upOk \in BOOLEAN :
        LET cc  == two[i].c
            doc == files[cc.fileName]
            rt  == IF upOk THEN LauncherUp(runtime, doc, cc.projectName)
                   ELSE runtime
            ids == ScrapeIds(FindAllStringSubmatch(UpOutputOf(doc, cc.projectName)))
        IN  /\ runtime' = rt
            /\ \E failing \in InspectFailures(ids) :
               \E r \in updateContainers(ids, cc.containers,
                                         cc.publicCfg.Services, rt, failing) :
                 LET e  == IF upOk THEN r.err
                           ELSE CmdErr("up", two[i].loop.i + 1)
                     l  == ConnectIter(two[i].loop, e)
                     c2 == IF upOk
                           THEN [cc EXCEPT !.ids = ids, !.containers = r.containers]
                           ELSE cc
                 IN  two' = TwoPut(two, i,
                        IF l.returned
                        THEN [two[i] EXCEPT !.c = c2, !.loop = l, !.pc = "started",
                                 !.ret = [op |-> "Start", err |-> NilErr]]
                        ELSE IF ConnectCanRun(l)
                        THEN [two[i] EXCEPT !.c = c2, !.loop = l]
                        ELSE [two[i] EXCEPT !.c = c2, !.loop = l, !.pc = "failed",
                                 !.ret = [op |-> "Start",
                                          err |-> Wrap("compose: error starting containers: ",
                                                       l.err)]])
    /\ UNCHANGED files
    /\ UNCHANGED orchVars
    /\ UNCHANGED polVars
    /\ UNCHANGED utilVars
    /\ UNCHANGED concVars

\* GetContainer(key) on instance i
TwoGetContainer(i) ==
    /\ two[i].pc = "started"
    /\ \E key \in DOMAIN two[i].c.publicCfg.Services,
          failing \in InspectFailures(two[i].c.ids) :
        \E r \in updateContainers(two[i].c.ids, two[i].c.containers,
                                  two[i].c.publicCfg.Services, runtime, failing) :
            two' = TwoPut(two, i,
                     [two[i] EXCEPT !.c.containers = r.containers,
                                    !.ret = GetContainerResult(key, r)])
    /\ UNCHANGED <<files, runtime>>
    /\ UNCHANGED orchVars
    /\ UNCHANGED polVars
    /\ UNCHANGED utilVars
    /\ UNCHANGED concVars

\* Connect on instance i, with a policy of no retries and a probe that
\* works or fails
TwoConnect(i) ==
    /\ two[i].pc = "started"
    /\ \E ok \in BOOLEAN :
        LET r == ConnectTurn([NoConnect EXCEPT !.pc = "running"],
                             NewSimpleRetryPolicy(0, 0), ok, 0)
        IN  two' = TwoPut(two, i,
                     [two[i] EXCEPT !.ret = [op |-> "Connect", err |-> r.conn.err]])
    /\ UNCHANGED <<files, runtime>>
    /\ UNCHANGED orchVars
    /\ UNCHANGED polVars
    /\ UNCHANGED utilVars
    /\ UNCHANGED concVars

\* Cleanup on instance i; its stop may fail
TwoCleanup(i) ==
    /\ two[i].pc = "started"
    /\ \E stopOk \in BOOLEAN :
        LET r == CleanupRun(two[i].c, [stop |-> stopOk, kill |-> TRUE,
                                       down |-> TRUE, pruneFails |-> 0])
        IN  /\ runtime' = ApplyCalls(runtime, r.calls)
            /\ two' = TwoPut(two, i,
                     [two[i] EXCEPT !.pc = "cleaned",
                                    !.ret = [op |-> "Cleanup", err |-> r.err]])
    /\ UNCHANGED files
    /\ UNCHANGED orchVars
    /\ UNCHANGED polVars
    /\ UNCHANGED utilVars
    /\ UNCHANGED concVars

\* the paths the two instances are told to write their file to ("": none,
\* Start makes a temporary file)
OutFiles == {<<"", "">>, <<"out.yaml", "">>, <<"out.yaml", "out.yaml">>}

InitTwo ==
    /\ opts = StartedOpts
    /\ pc = "init"
    /\ c = NoCompose
    /\ loop = ConnectLoop(0, 0)
    /\ calls = <<>>
    /\ attempts = <<>>
    /\ startUps = 0
    /\ startRet = [c |-> FALSE, err |-> NilErr]
    /\ ret = NoRet
    /\ policy = NewSimpleRetryPolicy(0, 0)
    /\ answers = <<>>
    /\ conn = NoConnect
    /\ UtilIdle
    /\ \E out \in OutFiles, compose2 \in {ConfigMsMysql, ConfigSvcAB} :
          two = [i \in Instances |->
                   NoInstance(TwoOpts(i, IF i = 1 THEN ConfigMsMysql ELSE compose2,
                                      out[i]))]
    /\ files = <<>>
    /\ runtime = {}
    /\ ConcIdle

NextTwo ==
    \E i \in Instances :
        \/ TwoStartBegin(i)
        \/ TwoStartAttempt(i)
        \/ TwoGetContainer(i)
        \/ TwoConnect(i)
        \/ TwoCleanup(i)

SpecTwo == InitTwo /\ [][NextTwo]_vars

(***************************************************************************)
(* Several callers of Connect on one instance, at the same time.           *)
(***************************************************************************)
Callers == 1..2

\* the policies the callers make, each its own
CallerPolicies ==
    {NewSimpleRetryPolicy(r, 1000) : r \in 0..MaxRetries}
    \cup {NewExponentialBackoffRetryPolicy(r, 8, 20) : r \in 0..MaxRetries}

\* a caller's connectFunc fails at its first fails runs and works from
\* then on
ProbeWorks(fails, n) == n > fails

\* the Connect call in progress is kept in the locals of that call
ConcPutSharedLocals(cs, i, cl) ==
    [k \in DOMAIN cs |-> IF k = i THEN cl ELSE [cs[k] EXCEPT !.conn = cl.conn]]

ConcPut(cs, i, cl) == [cs EXCEPT ![i] = cl]

\* caller i calls c.Connect(policy, connectFunc)
ConcConnectBegin(i) ==
    /\ pc = "started"
    /\ callers # <<>>
    /\ callers[i].conn.pc = "idle"
    /\ callers' = ConcPut(callers, i,
                    [callers[i] EXCEPT !.conn = [NoConnect EXCEPT !.pc = "running"]])
    /\ UNCHANGED orchVars
    /\ UNCHANGED polVars
    /\ UNCHANGED utilVars
    /\ UNCHANGED twoVars

\* one turn of the loop of caller i's Connect
ConcConnectStep(i) ==
    /\ callers # <<>>
    /\ callers[i].conn.pc = "running"
    /\ \E j \in Jitters(callers[i].policy) :
        LET cl == callers[i]
            r  == ConnectTurn(cl.conn, cl.policy,
                              ProbeWorks(cl.fails, cl.conn.probes + 1), j)
        IN  callers' = ConcPut(callers, i,
                         [cl EXCEPT !.conn = r.conn, !.policy = r.policy])
    /\ UNCHANGED orchVars
    /\ UNCHANGED polVars
    /\ UNCHANGED utilVars
    /\ UNCHANGED twoVars

\* Connect(p, connectFunc) run on its own, from the locals cn on: the locals
\* it ends with
RECURSIVE ConnectAlone(_, _, _)
ConnectAlone(cn, p, fails) ==
    IF cn.pc = "done" THEN cn
    ELSE LET r == ConnectTurn(cn, p, ProbeWorks(fails, cn.probes + 1), 0)
         IN  ConnectAlone(r.conn, r.policy, fails)

InitConc ==
    /\ opts = StartedOpts
    /\ pc = "started"
    /\ c = StartedCompose
    /\ loop = ConnectIter(ConnectLoop(2, StartRetryDelay), NilErr)
    /\ calls = <<Call("Start", "up", c.fileName, c.projectName, TRUE)>>
    /\ attempts = <<NilErr>>
    /\ startUps = 1
    /\ startRet = [c |-> TRUE, err |-> NilErr]
    /\ ret = NoRet
    /\ policy = NewSimpleRetryPolicy(0, 0)
    /\ answers = <<>>
    /\ conn = NoConnect
    /\ UtilIdle
    /\ TwoIdle
    /\ \E ps \in [Callers -> CallerPolicies],
          fs \in [Callers -> 0..(MaxRetries + 1)] :
          callers = [i \in Callers |->
                       [given |-> ps[i], policy |-> ps[i], fails |-> fs[i],
                        conn |-> NoConnect]]

NextConc ==
    \E i \in Callers :
        \/ ConcConnectBegin(i)
        \/ ConcConnectStep(i)

SpecConc == InitConc /\ [][NextConc]_vars

(***************************************************************************)
(* Properties of Cleanup.                                                  *)
(***************************************************************************)
CleanupReturned == ret.op = "Cleanup"
Invoked(cmd) == \E i \in 1..Len(calls) : calls[i].cmd = cmd

\* C1: with preventStop and keepAround both false, every Cleanup invokes
\* stop, kill, down and the volume prune, whichever of them fail.
C1_CleanupAttemptsEveryStep ==
    (CleanupReturned /\ ~c.cfg.preventStop /\ ~c.cfg.keeparound)
        => \A cmd \in {"stop", "kill", "down", "volume prune"} : Invoked(cmd)

\* the steps of the Cleanup that has returned which are enabled and fail
StopFails  == ~c.cfg.preventStop /\ ~ret.env.stop
KillFails  == ~c.cfg.keeparound /\ ~ret.env.kill
DownFails  == ~c.cfg.keeparound /\ ~ret.env.down
PruneFails == ~c.cfg.keeparound /\ ret.env.pruneFails = PruneTries

\* C2: Cleanup returns nil exactly when every step it invoked succeeded, and
\* otherwise an error whose text contains the text of every failing step,
\* the stop step included (stop fails and prune fails: both are mentioned).
C2_CleanupErrorNamesEveryFailure ==
    CleanupReturned =>
        /\ ret.err.isNil <=>
              /\ \A i \in 1..Len(calls) : calls[i].name = "docker-compose" => calls[i].ok
              /\ Invoked("volume prune") => calls[Len(calls)].ok
        /\ StopFails  => ErrContains(ret.err, CmdErr("stop", 1))
        /\ KillFails  => ErrContains(ret.err, CmdErr("kill", 1))
        /\ DownFails  => ErrContains(ret.err, CmdErr("down", 1))
        /\ PruneFails => ErrContains(ret.err, CmdErr("volume prune", PruneTries))

\* C3: with keepAround, Cleanup invokes nothing but stop, and stop only
\* when preventStop is false; it returns the error of stop, nil when stop
\* succeeded or was not invoked.
C3_KeepAroundOnlyStops ==
    (CleanupReturned /\ c.cfg.keeparound) =>
        /\ calls = IF c.cfg.preventStop THEN <<>>
                   ELSE <<Call("Cleanup", "stop", c.fileName, c.projectName, ret.env.stop)>>
        /\ ret.err = IF StopFails
                     THEN Wrap("compose: error stopping stale containers: ",
                               CmdErr("stop", 1))
                     ELSE NilErr

\* a Cleanup with keepAround whose stop has failed
C3_Witness ==
    CleanupReturned /\ c.cfg.keeparound /\ StopFails /\ ~ret.err.isNil

(***************************************************************************)
(* Properties of Start.                                                    *)
(***************************************************************************)
\* Start has returned and no other operation has run since
StartReturned == pc \in {"started", "failed"} /\ ret = NoRet
StartSucceeded == StartReturned /\ pc = "started"
ServiceKeys == DOMAIN opts.compose.Services
StartingError(e) == Wrap("compose: error starting containers: ", e)

\* C4: with startRetryCount = k >= 1, Start succeeds iff one of the first k
\* convergence attempts succeeds, and otherwise returns the error of
\* attempt k wrapped with "error starting containers" (attempts 1 and 2
\* fail, attempt 3 succeeds: success for k = 3, the error of attempt 2 for
\* k = 2).
C4_StartRetriesUpToK ==
    LET k == InternalCFG(opts).connectTries
    IN  (StartReturned /\ k >= 1) =>
            /\ Len(attempts) <= k
            /\ startRet.c <=> \E i \in 1..Len(attempts) : attempts[i].isNil
            /\ (~startRet.c /\ attempts # <<>>) =>
                  /\ Len(attempts) = k
                  /\ startRet.err = StartingError(attempts[k])

\* Start with startRetryCount = 3 whose "up" failed twice and then worked
C4_Witness ==
    /\ StartSucceeded
    /\ InternalCFG(opts).connectTries = 3
    /\ Len(attempts) = 3
    /\ attempts[1] = CmdErr("up", 1)
    /\ attempts[2] = CmdErr("up", 2)
    /\ startRet.c /\ startRet.err.isNil

\* C5: Start returns an error and no instance, or an instance for which
\* some "up" succeeded and every scraped identifier has an entry in the
\* logical-name mapping.
C5_StartAllOrNothing ==
    StartReturned =>
        \/ ~startRet.c /\ ~startRet.err.isNil
        \/ /\ startRet.c /\ startRet.err.isNil
           /\ \E i \in 1..Len(calls) : calls[i].cmd = "up" /\ calls[i].ok
           /\ \A id \in Range(c.ids) :
                 \E k \in DOMAIN c.containers : c.containers[k].ID = id

\* C6: forcePull = false, removeBeforeStart = false, startRetryCount = 2,
\* services svcA and svcB, a launcher that succeeds on the first call and
\* reports one container per service: the mapping's keys are exactly svcA
\* and svcB, and GetContainer succeeds for both (unless the inspection it
\* makes fails).
C6_TwoServicesFirstCall ==
    (/\ pc = "started"
     /\ opts.compose = ConfigSvcAB
     /\ ~opts.forcePull /\ ~opts.rmFirst
     /\ InternalCFG(opts).connectTries = 2
     /\ startUps = 1
     /\ Range(c.ids) = {RuntimeID(KeySvcA), RuntimeID(KeySvcB)})
    =>  /\ DOMAIN c.containers = {KeySvcA, KeySvcB}
        /\ (ret.op = "GetContainer" /\ ret.key \in {KeySvcA, KeySvcB}) =>
              \/ ~ret.err.isNil /\ ret.err.msg[1] = Tok("inspect failed: ", 0)
              \/ /\ ret.err.isNil
                 /\ ret.info.ID = RuntimeID(ret.key)
                 /\ ret.info.Name = RuntimeName(c.projectName, ret.key)

\* such a Start, named "s_vcA", after which GetContainer("svcB") has succeeded
C6_Witness ==
    /\ pc = "started"
    /\ opts.compose = ConfigSvcAB /\ opts.named
    /\ ~opts.forcePull /\ ~opts.rmFirst
    /\ InternalCFG(opts).connectTries = 2
    /\ startUps = 1
    /\ DOMAIN c.containers = {KeySvcA, KeySvcB}
    /\ ret.op = "GetContainer" /\ ret.key = KeySvcB /\ ret.err.isNil

\* no service key is a substring of another one
NoKeyInAnotherKey(keys) ==
    \A k1 \in keys, k2 \in keys : k1 # k2 => ~Contains(k2, k1)

\* C7: after a successful Start (the launcher having reported the container
\* of every service and no other) every service key k is mapped to the
\* container "/<project>_<k>_1", whenever no key is a substring of another.
C7_KeysMapToTheirContainers ==
    (/\ StartSucceeded
     /\ Range(c.ids) = {RuntimeID(k) : k \in ServiceKeys}
     /\ NoKeyInAnotherKey(ServiceKeys)) =>
        \A k \in ServiceKeys :
            /\ k \in DOMAIN c.containers
            /\ c.containers[k].Name = RuntimeName(InternalCFG(opts).projectName, k)

(***************************************************************************)
(* Properties of GetContainer.                                             *)
(***************************************************************************)
\* the Inspect calls of the GetContainer that has just returned
Refreshed == ret'.inspected
RefreshFailed == ~ret'.refresh.isNil

\* C11: GetContainer(key) inspects the tracked identifiers in order, all of
\* them unless the refresh fails; every entry of the mapping it has changed
\* holds a snapshot it has just fetched, and the snapshot of each container
\* is in the mapping (unless a container inspected later took its key); it
\* then returns the entry of key, or a "not found" error when the mapping
\* has no such key; when the refresh fails it returns the refresh's error
\* and no container.
C11_GetContainerRefreshesThenLooksUp ==
    [][GetContainerAnyState =>
        /\ Len(Refreshed) <= Len(c.ids)
        /\ \A i \in 1..Len(Refreshed) : Refreshed[i].id = c.ids[i]
        /\ c'.ids = c.ids
        /\ \A k \in DOMAIN c'.containers :
              \/ \E i \in 1..Len(Refreshed) :
                    Refreshed[i].err.isNil /\ c'.containers[k] = Refreshed[i].container
              \/ k \in DOMAIN c.containers /\ c'.containers[k] = c.containers[k]
        /\ ~RefreshFailed =>
              /\ Len(Refreshed) = Len(c.ids)
              /\ \A i \in 1..Len(Refreshed) :
                    \/ \E k \in DOMAIN c'.containers :
                          c'.containers[k] = Refreshed[i].container
                    \/ \E j \in (i + 1)..Len(Refreshed) :
                          findKey(Tail(Refreshed[i].container.Name), c.publicCfg.Services)
                          \cap findKey(Tail(Refreshed[j].container.Name), c.publicCfg.Services)
                          # {}
              /\ IF ret'.key \in DOMAIN c'.containers
                 THEN ret'.err.isNil /\ ret'.info = c'.containers[ret'.key]
                 ELSE /\ ret'.err = Err(<<Tok("no container found", 0)>>)
                      /\ ret'.info = NoContainer
        /\ RefreshFailed =>
              /\ ret'.err = ret'.refresh
              /\ ret'.info = NoContainer
              /\ ~Refreshed[Len(Refreshed)].err.isNil
                    => ret'.err = Refreshed[Len(Refreshed)].err
      ]_vars

\* a GetContainer("ms") of project "testgoodyml" that has inspected both
\* containers and returned a snapshot newer than the one Start had stored
C11_Witness ==
    /\ ret.op = "GetContainer" /\ ret.key = KeyMs /\ ret.err.isNil
    /\ opts.compose = ConfigMsMysql
    /\ Len(ret.inspected) = 2
    /\ ~ret.info.Running
    /\ c.containers[KeyMs] = ret.info

\* a GetContainer whose refresh failed at the second container
C11_WitnessRefreshFailed ==
    /\ ret.op = "GetContainer" /\ ~ret.err.isNil
    /\ Len(ret.inspected) = 2 /\ ~ret.inspected[2].err.isNil
    /\ ret.info = NoContainer

(***************************************************************************)
(* Properties of the retry policies and of Connect.                        *)
(***************************************************************************)
\* C8: a fresh fixed-interval policy with NumRetries = n answers
\* shouldRetry = true on exactly its first n calls and false on every later
\* one, whatever the error, always with the configured wait.
C8_SimplePolicyRetriesExactlyN ==
    policy.kind = "simple" =>
        \A i \in 1..Len(answers) :
            /\ answers[i].retry <=> i <= policy.NumRetries
            /\ answers[i].wait = policy.Wait

\* a policy of 2 retries that has answered true twice and then false twice
C8_Witness ==
    /\ policy.kind = "simple" /\ policy.NumRetries = 2
    /\ Len(answers) >= 4
    /\ answers[1].retry /\ answers[2].retry
    /\ ~answers[3].retry /\ ~answers[4].retry

EffectiveMax(max) == IF max <= 0 THEN DefaultMax ELSE max

\* C9: the wait the exponential policy returns is never above the effective
\* max (Max, or 10s when Max <= 0) and never negative.
C9_ExponentialWaitWithinBounds ==
    policy.kind = "exp" =>
        \A i \in 1..Len(answers) :
            /\ answers[i].wait >= 0
            /\ answers[i].wait <= EffectiveMax(policy.Max)

\* an exponential policy (Min 8ms, Max 20ms) whose fourth wait was cut down
\* to its Max
C9_Witness ==
    /\ policy.kind = "exp" /\ policy.Min = 8 /\ policy.Max = 20
    /\ Len(answers) >= 4
    /\ answers[1].wait < 8
    /\ answers[4].wait = 20

EffectiveMin(min) == IF min <= 0 THEN DefaultMin ELSE min

\* whether wait w is what attempt k >= 1 of a policy of min and max (both
\* effective) may give: within min/2 of min * 2^(k-1), or the max when the
\* max lies below all of these
WaitOfAttempt(w, k, min, max) ==
    LET mid == min * 2 ^ (k - 1)
    IN  \/ 2 * mid - min <= 2 * w /\ 2 * w <= 2 * mid + min
        \/ w = max /\ 2 * max < 2 * mid - min

DeclinedWithin(n) == \E i \in 1..n : i <= Len(answers) /\ ~answers[i].retry

\* C23: every AttemptAgain adds exactly one to the policy's counter and
\* changes nothing else of the policy, and nothing else changes the policy;
\* so once the policy has declined it declines ever after, and a Connect
\* begun with a policy that has already declined runs its failing probe
\* exactly once.
C23_PolicyCounterOnlyGrows ==
    /\ [][/\ policy' # policy => policy' = [policy EXCEPT !.n = @ + 1]
          /\ Len(answers') = Len(answers) + (policy'.n - policy.n)]_vars
    /\ [](\A i, j \in 1..Len(answers) :
             (i < j /\ ~answers[i].retry) => ~answers[j].retry)
    /\ []((conn.pc = "done" /\ DeclinedWithin(conn.startN) /\ conn.failures > 0)
             => conn.probes = 1)

\* a Connect begun after the policy (of 1 retry) had declined has ended
\* with its one probe failed, the policy declining once more
C23_Witness ==
    /\ policy.NumRetries = 1
    /\ conn.pc = "done" /\ conn.startN >= 2 /\ DeclinedWithin(conn.startN)
    /\ conn.probes = 1 /\ conn.failures = 1 /\ ~conn.err.isNil
    /\ policy.n = conn.startN + 1
    /\ ~answers[Len(answers)].retry

\* C10: Connect returns nil at the first probe success without asking the
\* policy; after each probe failure it asks the policy exactly once; if the
\* policy declines it returns that probe's error without sleeping, and
\* otherwise sleeps the wait returned and probes again.  With a fresh
\* fixed-interval policy of n retries and a probe that always fails, the
\* probe runs exactly n+1 times and Connect returns the last probe's error.
C10_ConnectLoop ==
    conn.pc # "idle" =>
        /\ Len(conn.asked) = conn.failures
        /\ \A i \in 1..Len(conn.sleeps) :
              conn.asked[i].retry /\ conn.sleeps[i] = conn.asked[i].wait
        /\ conn.pc = "running" =>
              /\ conn.probes = conn.failures
              /\ Len(conn.sleeps) = conn.failures
        /\ (conn.pc = "done" /\ conn.err.isNil) =>
              /\ conn.probes = conn.failures + 1
              /\ Len(conn.sleeps) = conn.failures
        /\ (conn.pc = "done" /\ ~conn.err.isNil) =>
              /\ conn.probes = conn.failures
              /\ conn.err = ProbeErr(conn.probes)
              /\ ~conn.asked[conn.failures].retry
              /\ Len(conn.sleeps) = conn.failures - 1
        /\ (policy.kind = "simple" /\ conn.startN = 0) =>
              /\ conn.pc = "running" => conn.probes <= policy.NumRetries
              /\ (conn.pc = "done" /\ ~conn.err.isNil) =>
                    conn.probes = policy.NumRetries + 1

\* a Connect with a fresh policy of 2 retries whose probe has failed 3 times
C10_Witness ==
    /\ policy.kind = "simple" /\ policy.NumRetries = 2 /\ conn.startN = 0
    /\ conn.pc = "done" /\ conn.err = ProbeErr(3)
    /\ conn.probes = 3 /\ Len(conn.sleeps) = 2

(***************************************************************************)
(* Properties of InferDockerHost and of connect.                           *)
(***************************************************************************)
HostReturned == hostRet.op # "none"

\* C12: with DOCKER_HOST empty or unset InferDockerHost and
\* MustInferDockerHost return "localhost"; with "tcp://192.168.99.100:2376"
\* they return "192.168.99.100".
C12_InferDockerHostDefaultsToLocalhost ==
    HostReturned =>
        /\ dockerHost = <<>> =>
              hostRet.host = Localhost /\ hostRet.err.isNil /\ ~hostRet.panic
        /\ dockerHost = TcpHost =>
              hostRet.host = TcpHostName /\ hostRet.err.isNil /\ ~hostRet.panic

\* what the code does: "127.0.0.1" for an empty DOCKER_HOST, the text
\* between "://" and the next ":" when there is exactly one such place
C12_InferDockerHostAsBuilt ==
    HostReturned =>
        /\ dockerHost = <<>> =>
              hostRet.host = Loopback /\ hostRet.err.isNil /\ ~hostRet.panic
        /\ dockerHost = TcpHost =>
              hostRet.host = TcpHostName /\ hostRet.err.isNil /\ ~hostRet.panic
        /\ hostRet.panic <=> (hostRet.op = "MustInferDockerHost" /\ ~hostRet.err.isNil)


\* the calls of connectFunc that have failed
FailedCalls == {i \in 1..Len(retry.results) : ~retry.results[i].isNil}

\* C15: connect(retryCount, baseRetryDelay, connectFunc) calls connectFunc
\* at most retryCount times, returns nil at the first success and calls it
\* no more, returns the error of the last call when all fail, and sleeps
\* once after every failing call, the last included: baseRetryDelay,
\* 2*baseRetryDelay, 4*baseRetryDelay, ...
C15_RetryLoop ==
    LET n == Len(retry.results)
    IN  /\ n <= retry.retryCount \/ n = 0
        /\ \A i \in 1..(n - 1) : ~retry.results[i].isNil
        /\ Len(retry.loop.sleeps) = Cardinality(FailedCalls)
        /\ \A i \in 1..Len(retry.loop.sleeps) :
              retry.loop.sleeps[i] = retry.baseRetryDelay * 2 ^ (i - 1)
        /\ (n > 0 /\ retry.results[n].isNil) => (retry.done /\ retry.err.isNil)
        /\ retry.done =>
              /\ n > 0 => retry.err = retry.results[n]
              /\ ~retry.err.isNil => n = retry.retryCount
        /\ (~retry.done /\ n > 0) => ~retry.results[n].isNil

\* connect(3, 100, f) has returned the error of the third call of f, having
\* slept 100, 200 and 400
C15_Witness ==
    /\ retry.retryCount = 3 /\ retry.baseRetryDelay = 100
    /\ retry.done /\ retry.err = FuncErr(3)
    /\ retry.loop.sleeps = <<100, 200, 400>>


(***************************************************************************)
(* More properties of Start and Cleanup.                                   *)
(***************************************************************************)
NotUnderscore(ch) == ch # "_"
\* name in lower case, without its underscores
Normalized(name) == SelectSeq(ToLower(name), NotUnderscore)
NameTestGoodYMLLower == <<"t","e","s","t","g","o","o","d","y","m","l">>

C16_FixedTwoSecondSpacing ==
    /\ \A i \in 1..Len(loop.sleeps) : loop.sleeps[i] = 2
    /\ (CleanupReturned /\ Invoked("volume prune")) =>
          \A i \in 1..Len(dockerPrune(ret.env.pruneFails).sleeps) :
              dockerPrune(ret.env.pruneFails).sleeps[i] = 2

\* the commands Start runs before its first "up"
StartPreludeCmds ==
    (IF opts.forcePull THEN <<"pull">> ELSE <<>>)
    \o (IF opts.rmFirst THEN <<"kill", "rm">> ELSE <<>>)

\* Start is running or has returned, and no other operation has run since
InStart == pc \in {"connect", "started", "failed"} /\ ret = NoRet

\* C17: Start runs pull (if forcePull), then kill and rm (if
\* removeBeforeStart), then "up"; a pull, kill or rm that fails is the last
\* command Start runs, and Start fails; with both flags false the first
\* command is "up".
C17_StartOrder ==
    InStart =>
        /\ \A i \in 1..Len(calls) :
              /\ calls[i].op = "Start"
              /\ calls[i].cmd = IF i <= Len(StartPreludeCmds)
                                THEN StartPreludeCmds[i] ELSE "up"
              /\ (calls[i].cmd # "up" /\ ~calls[i].ok) =>
                    /\ i = Len(calls)
                    /\ pc = "failed" /\ ~startRet.c /\ ~startRet.err.isNil
        /\ pc \in {"connect", "started"} => Len(calls) >= Len(StartPreludeCmds)

\* a Start with both flags whose pull and kill worked and whose rm failed
C17_Witness ==
    /\ InStart /\ pc = "failed" /\ opts.forcePull /\ opts.rmFirst
    /\ Len(calls) = 3
    /\ calls[1].cmd = "pull" /\ calls[1].ok
    /\ calls[2].cmd = "kill" /\ calls[2].ok
    /\ calls[3].cmd = "rm" /\ ~calls[3].ok

\* the configuration without its networks
HasNoNetworks(cfg) ==
    /\ cfg.Networks = Nil
    /\ \A k \in DOMAIN cfg.Services : cfg.Services[k].Networks = Nil

\* C18: no step changes the caller's Config; the Config the instance holds
\* has no project-level networks and no service networks, and otherwise the
\* caller's services.
C18_CallerConfigUntouched ==
    /\ [][opts'.compose = opts.compose]_vars
    /\ [](pc \in {"connect", "started", "cleaned"} =>
            /\ HasNoNetworks(c.publicCfg)
            /\ DOMAIN c.publicCfg.Services = DOMAIN opts.compose.Services
            /\ \A k \in DOMAIN c.publicCfg.Services :
                  c.publicCfg.Services[k].Image = opts.compose.Services[k].Image)

\* Start has succeeded for the configuration of svcA and svcB, which
\* declares networks: the caller's Config still has them, the instance's
\* has none
C18_Witness ==
    /\ pc = "started" /\ opts.compose = ConfigSvcAB
    /\ opts.compose.Networks # Nil
    /\ opts.compose.Services[KeySvcA].Networks = <<"front", "back">>
    /\ HasNoNetworks(c.publicCfg)


IsUp(call) == call.cmd = "up"
\* every container name of the project has one service key in it
UnambiguousNames ==
    \A w \in ProjectContainers(InternalCFG(opts).projectName, opts.compose) :
        \A k1, k2 \in ServiceKeys :
            (Contains(w.Name, k1) /\ Contains(w.Name, k2)) => k1 = k2
InspectFailed(e) == ~e.isNil /\ e.msg[1] = Tok("inspect failed: ", 0)
MapFailed(e) ==
    ~e.isNil /\ e.msg[1] = Tok("could not map key: , to list of services", 0)

\* C19: every convergence attempt of Start runs "up" once; an attempt whose
\* "up" works but in which a container cannot be inspected or mapped is a
\* failed attempt like any other: Start does not succeed by it, goes on to
\* the next attempt while retries remain, takes the identifiers of the
\* newest output only, and succeeds by a later attempt in which all
\* containers map.
C19_MappingFailureRetriesUp ==
    InStart =>
        LET ups == SelectSeq(calls, IsUp)
            n   == Len(attempts)
        IN  /\ Len(ups) = n
            /\ \A i \in 1..n :
                  /\ ~ups[i].ok => attempts[i] = CmdErr("up", i)
                  /\ ups[i].ok =>
                        attempts[i].isNil \/ InspectFailed(attempts[i])
                        \/ MapFailed(attempts[i])
                  /\ ~attempts[i].isNil => (i < n \/ pc # "started")
            /\ \A i \in 1..(n - 1) : ~attempts[i].isNil
            /\ (pc = "failed" /\ n > 0) => n = InternalCFG(opts).connectTries
            /\ (n > 0 /\ ups[n].ok) =>
                  c.ids \in {ScrapeIds(FindAllStringSubmatch(out)) :
                               out \in UpOutputs(c.publicCfg)}
            /\ (pc = "started" /\ n > 0) => attempts[n].isNil
            /\ (pc = "started" /\ n > 0 /\ UnambiguousNames) =>
                  \A j \in 1..Len(c.ids) :
                      \E k \in DOMAIN c.containers : c.containers[k].ID = c.ids[j]

\* a Start whose first "up" worked but reported a container that maps to
\* no service, and whose second attempt succeeded
C19_Witness ==
    /\ StartSucceeded /\ Len(attempts) = 2 /\ Len(calls) >= 2
    /\ calls[Len(calls) - 1].cmd = "up" /\ calls[Len(calls) - 1].ok
    /\ MapFailed(attempts[1])
    /\ attempts[2].isNil
    /\ \A j \in 1..Len(c.ids) :
          \E k \in DOMAIN c.containers : c.containers[k].ID = c.ids[j]

\* a Start whose first "up" worked but one of whose containers could not be
\* inspected, and whose second attempt succeeded
C19_WitnessInspect ==
    /\ StartSucceeded /\ Len(attempts) = 2
    /\ InspectFailed(attempts[1])
    /\ attempts[2].isNil

\* the containers' statuses are those the mapping was resolved against
SameStatuses ==
    /\ \A i \in 1..Len(Refreshed) :
          Refreshed[i].container \in ProjectContainers(c.projectName, c.publicCfg)
    /\ \A k \in DOMAIN c.containers :
          c.containers[k] \in ProjectContainers(c.projectName, c.publicCfg)

\* C20: resolving the same identifiers against the same services and the
\* same container statuses again yields the same mapping, whatever the
\* service names.
C20_ResolutionDeterministic ==
    [][(GetContainerAnyState /\ ~RefreshFailed /\ SameStatuses)
          => c'.containers = c.containers]_vars


(***************************************************************************)
(* Properties of two instances side by side.                               *)
(***************************************************************************)
\* the file instance i is to use
OwnFile(i) ==
    IF two[i].opts.outFile # "" THEN two[i].opts.outFile ELSE TmpFile(i)

\* what instance i holds is its own: its project name, its file, its
\* configuration, identifiers and containers of its project only, under
\* keys of its services; while it is started its containers exist
OwnState(i) ==
    LET inst == two[i]
        name == Normalized(inst.opts.name)
    IN  inst.pc \in {"connect", "started", "cleaned"} =>
            /\ inst.c.projectName = name
            /\ inst.c.fileName = OwnFile(i)
            /\ inst.c.publicCfg = StripNetworks(inst.opts.compose)
            /\ \A j \in 1..Len(inst.c.ids) :
                  \E k \in {KeyMs, KeyMysql, KeySvcA, KeySvcB} :
                      inst.c.ids[j] = RuntimeIDIn(name, k)
            /\ \A k \in DOMAIN inst.c.containers :
                  /\ k \in DOMAIN inst.opts.compose.Services
                  /\ IsOfProject(inst.c.containers[k], name)
                  /\ \E j \in 1..Len(inst.c.ids) :
                        inst.c.containers[k].ID = inst.c.ids[j]
            /\ inst.pc = "started" =>
                  \A j \in 1..Len(inst.c.ids) :
                      \E w \in runtime : w.ID = inst.c.ids[j] /\ w.Running

NoDuplicates(q) == \A i, j \in 1..Len(q) : q[i] = q[j] => i = j

\* C21: the identifier list taken from the output of "up" has no empty
\* identifier and has each runtime identifier at most once.
C21_IdsHoldEachIdentifierOnce ==
    pc \in {"connect", "started"} =>
        /\ \A i \in 1..Len(c.ids) : c.ids[i] # ""
        /\ NoDuplicates(c.ids)

\* as built: the list has no empty identifier, and is the identifiers of the
\* matching lines in their order, a repeated line giving a repeated entry
C21_IdsAsScraped ==
    pc \in {"connect", "started"} =>
        /\ \A i \in 1..Len(c.ids) : c.ids[i] # ""
        /\ \/ c.ids = <<>>
           \/ \E out \in UpOutputs(c.publicCfg) :
                 c.ids = SelectSeq(FindAllStringSubmatch(out), LAMBDA m : m # "")

(***************************************************************************)
(* Properties of Connect run by several callers.                           *)
(***************************************************************************)
\* C24: callers running Connect on one instance at the same time, each
\* with a policy of its own: no step of a Connect changes the instance (its
\* identifiers, its mapping, its project name, its options), and every
\* Connect ends with the number of probes and the error it ends with when
\* run alone.
C24_ConcurrentConnectsIndependent ==
    /\ [][callers' # callers => (c' = c /\ opts' = opts /\ pc' = pc)]_vars
    /\ [](\A i \in DOMAIN callers :
             callers[i].conn.pc = "done" =>
                 LET alone == ConnectAlone([NoConnect EXCEPT !.pc = "running"],
                                           callers[i].given, callers[i].fails)
                 IN  /\ callers[i].conn.probes = alone.probes
                     /\ callers[i].conn.err = alone.err)

\* caller 2's Connect has run from its first probe to the policy's decline
\* (three failed probes) while caller 1's Connect, one probe failed, is
\* still under way
C24_Witness ==
    /\ callers # <<>>
    /\ callers[1].conn.pc = "running" /\ callers[1].conn.probes = 1
    /\ callers[2].conn.pc = "done" /\ callers[2].conn.probes = 3
    /\ callers[2].conn.err = ProbeErr(3)
    /\ callers[2].policy.n = 3 /\ callers[1].policy.n = 1

(***************************************************************************)
(* Properties of Start's attempts.                                         *)
(***************************************************************************)
\* C25: a Start that has got to its convergence attempts runs "up" at most
\* startRetryCount times and never again after an attempt has succeeded,
\* and a Start that has succeeded has run "up" at least once, one of its
\* "up" having succeeded, whatever startRetryCount is.
C25_UpRunsOneToKTimes ==
    LET k == InternalCFG(opts).connectTries
    IN  /\ pc \in {"connect", "started"} => startUps <= k
        /\ \A i \in 1..(Len(attempts) - 1) : ~attempts[i].isNil
        /\ StartSucceeded =>
              /\ startUps >= 1
              /\ \E i \in 1..Len(calls) : calls[i].cmd = "up" /\ calls[i].ok

\* as built: the same for startRetryCount >= 1; with startRetryCount <= 0
\* Start succeeds without any "up"
C25_UpRunsAsBuilt ==
    LET k == InternalCFG(opts).connectTries
    IN  /\ pc \in {"connect", "started"} => startUps <= k
        /\ \A i \in 1..(Len(attempts) - 1) : ~attempts[i].isNil
        /\ StartSucceeded =>
              IF k >= 1
              THEN /\ startUps >= 1
                   /\ \E i \in 1..Len(calls) : calls[i].cmd = "up" /\ calls[i].ok
              ELSE startUps = 0 /\ c.ids = <<>> /\ c.containers = EmptyMap

\* the mappings updateContainers builds from an empty mapping for the
\* identifiers the instance holds, every container inspected
MappingsOfIds ==
    { r.containers :
        r \in { x \in updateContainers(c.ids, EmptyMap, c.publicCfg.Services,
                                       ProjectContainers(c.projectName, c.publicCfg),
                                       {}) : x.err.isNil } }

\* Start has succeeded at its second attempt or a later one
SucceededAfterFailures == StartSucceeded /\ Len(attempts) >= 2

\* C26: after a Start that has succeeded at its second attempt or a later
\* one, every entry of the mapping has an identifier of the identifier
\* list, and the mapping is one the final attempt builds by itself, with no
\* entry left from an earlier attempt.
C26_MappingOfFinalAttemptOnly ==
    SucceededAfterFailures =>
        /\ \A k \in DOMAIN c.containers : c.containers[k].ID \in Range(c.ids)
        /\ c.containers \in MappingsOfIds

\* as built: the same where every container name has one service key in it
C26_MappingOfFinalAttemptUnambiguous ==
    (SucceededAfterFailures /\ UnambiguousNames) =>
        /\ \A k \in DOMAIN c.containers : c.containers[k].ID \in Range(c.ids)
        /\ c.containers \in MappingsOfIds

(***************************************************************************)
(* Properties of GetContainer's refresh.                                   *)
(***************************************************************************)
\* the call that has just returned is a GetContainer that returned an error
GetContainerFailed == ret'.op = "GetContainer" /\ ~ret'.err.isNil

\* C27: a GetContainer that returns an error leaves the mapping as it was
\* before the call, and no GetContainer removes a key from the mapping or
\* changes the identifier list.
C27_GetContainerFailureAtomic ==
    [][GetContainerAnyState =>
          /\ GetContainerFailed => c'.containers = c.containers
          /\ DOMAIN c.containers \subseteq DOMAIN c'.containers
          /\ c'.ids = c.ids]_vars

\* as built: no GetContainer removes a key or changes the identifier list,
\* and one whose first Inspect fails leaves the mapping as it was
C27_GetContainerKeepsKeysAndIds ==
    [][GetContainerAnyState =>
          /\ (GetContainerFailed /\ Len(ret'.inspected) = 1 /\ RefreshFailed)
                => c'.containers = c.containers
          /\ DOMAIN c.containers \subseteq DOMAIN c'.containers
          /\ c'.ids = c.ids]_vars

(***************************************************************************)
(* Properties of the mapping in every state.                               *)
(***************************************************************************)
\* C28: in every state the keys of the mapping are service names of the
\* effective configuration, and the runtime name of every entry, without
\* its leading separator, has the entry's key in it.
C28_KeysAreServicesInNames ==
    \A k \in DOMAIN c.containers :
        /\ k \in DOMAIN c.publicCfg.Services
        /\ k \in ServiceKeys
        /\ c.containers[k].Name # <<>>
        /\ Contains(Tail(c.containers[k].Name), k)

\* a Start that needed several attempts, then a Cleanup; the mapping has an
\* entry for each of svcA and svcB
C28_Witness ==
    /\ pc = "cleaned" /\ ret.op = "Cleanup"
    /\ startUps >= 2
    /\ DOMAIN c.containers = {KeySvcA, KeySvcB}
    /\ c.containers[KeySvcA].ID = RuntimeID(KeySvcA)
    /\ c.containers[KeySvcB].ID = RuntimeID(KeySvcB)

=============================================================================
